---------------------------- MODULE Spec2Model ----------------------------
(***************************************************************************)
(* A model of elf-info: the CFA state tracker (EhInstrContext::print), the *)
(* frame listing (eh_frame), the disassembly-unwind overlay                *)
(* (EhFnCtx::at_ip driven by disassemble), the address-to-symbol lookup    *)
(* (addr_to_sym), the pointer encoding (value, value_abs), the unwind      *)
(* table (eh_frame_hdr), do_fn, one_section, main and run, the symbol      *)
(* listing (all_symbols), the two views of .eh_frame and                   *)
(* symbol_file_offset.                                                     *)
(*                                                                         *)
(* Addresses and offsets are small naturals far from 2^64: no u64          *)
(* wrap-around is modelled.  Rendered text is modelled by the values that  *)
(* are formatted into it, not by its characters.                           *)
(***************************************************************************)
EXTENDS Integers, Sequences, FiniteSets, TLC

(***************************************************************************)
(* Bounds of the model.                                                    *)
(***************************************************************************)
MaxTrackerInstrs == 3   \* instructions applied to one tracker
MaxEntries == 3         \* entries read from one frame section
MaxEntryInstrs == 2     \* instructions read from one entry of the listing
MaxFdeInstrs == 3       \* instructions of the overlay's FDE
MaxCode == 2            \* machine instructions decoded by the overlay
MaxSyms == 3            \* symbols of a symbol table
MaxAddr == 3            \* largest symbol value / looked-up address

(***************************************************************************)
(* Call-frame instructions (gimli::CallFrameInstruction as matched in      *)
(* EhInstrContext::print).  r is the register operand, v the other one.    *)
(***************************************************************************)
NoReg == 0 - 1

Instr(op, r, v) == [op |-> op, r |-> r, v |-> v]

\* The variants carrying a factored offset.
FactoredOps == {"offset", "offset_extended_sf", "val_offset", "val_offset_sf",
                "def_cfa_sf", "def_cfa_offset_sf"}

\* The variants redefining the CFA without a factor.
CfaOps == {"def_cfa", "def_cfa_register", "def_cfa_offset"}

\* One or two representatives of each of the variants of the match.
CfiAlphabet ==
    { Instr("set_loc", NoReg, 40),
      Instr("advance_loc", NoReg, 1), Instr("advance_loc", NoReg, 4),
      Instr("def_cfa", 7, 8), Instr("def_cfa", 6, 16),
      Instr("def_cfa_sf", 6, 2),
      Instr("def_cfa_register", 6, 0), Instr("def_cfa_register", 7, 0),
      Instr("def_cfa_offset", NoReg, 16), Instr("def_cfa_offset", NoReg, 24),
      Instr("def_cfa_offset_sf", NoReg, 2),
      Instr("def_cfa_expression", NoReg, 0),
      Instr("undefined", 16, 0),
      Instr("same_value", 3, 0),
      Instr("offset", 16, 1), Instr("offset", 6, 2),
      Instr("offset_extended_sf", 6, 2),
      Instr("val_offset", 6, 2),
      Instr("val_offset_sf", 6, 2),
      Instr("register", 6, 7),
      Instr("expression", 6, 0),
      Instr("val_expression", 6, 0),
      Instr("restore", 6, 0),
      Instr("remember_state", NoReg, 0),
      Instr("restore_state", NoReg, 0),
      Instr("args_size", NoReg, 8),
      Instr("nop", NoReg, 0) }

(***************************************************************************)
(* The CFA state tracker: struct EhInstrContext and its method print.      *)
(* sp (the hex width) only affects formatting and is left out.             *)
(***************************************************************************)
EhInstrContext(cfa_reg, cfa_off, loc, data_align) ==
    [cfa_reg |-> cfa_reg, cfa_off |-> cfa_off, loc |-> loc,
     data_align |-> data_align]

Abs(n) == IF n < 0 THEN 0 - n ELSE n

\* One printed line: the mnemonic with its operands as written between the
\* parentheses, and the annotation that follows them, if any:
\*   note = "loc"  : "loc = <nval>"
\*   note = "cfa"  : "cfa = %<nreg> + <nval>"
\*   note = "rule" : "%<nreg> @ cfa <sign> <nval>"
\*   note = "text" : a fixed text that depends on the operands only
\*   note = "none" : nothing after the operands
Line(instr, note, nreg, sign, nval) ==
    [mn |-> instr.op, r |-> instr.r, v |-> instr.v,
     note |-> note, nreg |-> nreg, sign |-> sign, nval |-> nval]

Plain(instr, note) == Line(instr, note, NoReg, "+", 0)

\* A faulty advance_loc, which moves the cursor the wrong way.
print_AdvanceLoc_backward(self, instr) ==
    LET loc == IF self.loc >= instr.v THEN self.loc - instr.v ELSE 0
    IN  [ctx  |-> [self EXCEPT !.loc = loc],
         line |-> Line(instr, "loc", NoReg, "+", loc)]

print_AdvanceLoc(self, instr) ==
    LET loc == self.loc + instr.v
    IN  [ctx  |-> [self EXCEPT !.loc = loc],
         line |-> Line(instr, "loc", NoReg, "+", loc)]

\* A faulty def_cfa_register, which also clears the offset.
print_DefCfaRegister_clears(self, instr) ==
    [ctx  |-> [self EXCEPT !.cfa_reg = instr.r, !.cfa_off = 0],
     line |-> Line(instr, "cfa", instr.r, "+", 0)]

print_DefCfaRegister(self, instr) ==
    [ctx  |-> [self EXCEPT !.cfa_reg = instr.r],
     line |-> Line(instr, "cfa", instr.r, "+", self.cfa_off)]

print_DefCfa(self, instr) ==
    [ctx  |-> [self EXCEPT !.cfa_reg = instr.r, !.cfa_off = instr.v],
     line |-> Line(instr, "cfa", instr.r, "+", instr.v)]

print_DefCfaOffset(self, instr) ==
    [ctx  |-> [self EXCEPT !.cfa_off = instr.v],
     line |-> Line(instr, "cfa", self.cfa_reg, "+", instr.v)]

\* A faulty offset, which renders the magnitude without its sign.
print_Offset_drops_sign(self, instr) ==
    LET off == instr.v * self.data_align
    IN  [ctx  |-> self,
         line |-> Line(instr, "rule", instr.r, "+", Abs(off))]

print_Offset(self, instr) ==
    LET off == instr.v * self.data_align
    IN  [ctx  |-> self,
         line |-> Line(instr, "rule", instr.r,
                       IF off < 0 THEN "-" ELSE "+", Abs(off))]

\* EhInstrContext::print: the tracker after the instruction, and the line.
EhInstrContext_print(self, instr) ==
    CASE instr.op = "set_loc" ->
            [ctx |-> self, line |-> Line(instr, "loc", NoReg, "+", instr.v)]
      [] instr.op = "advance_loc"      -> print_AdvanceLoc(self, instr)
      [] instr.op = "def_cfa"          -> print_DefCfa(self, instr)
      [] instr.op = "def_cfa_register" -> print_DefCfaRegister(self, instr)
      [] instr.op = "def_cfa_offset"   -> print_DefCfaOffset(self, instr)
      [] instr.op = "offset"           -> print_Offset(self, instr)
      [] instr.op \in {"undefined", "same_value", "register", "expression",
                       "restore"} ->
            [ctx |-> self, line |-> Plain(instr, "text")]
      [] OTHER -> [ctx |-> self, line |-> Plain(instr, "none")]

(***************************************************************************)
(* State.  Each specification below uses its own group of variables and    *)
(* leaves the others at their idle values.                                 *)
(***************************************************************************)
VARIABLES
    \* -- SpecTracker: one EhInstrContext fed instruction by instruction
    tr_ctx,       \* the EhInstrContext
    tr_n,         \* number of calls of print so far
    tr_last,      \* <<>> or <<the last call: instr, tracker before, line>>
    remembered,   \* history: the trackers at the remember_state's still open
    tr_expect,    \* history: <<>> or <<tracker at the matching remember_state>>
                  \* when the last call was a restore_state
    cfa_defined,  \* history: <<register, offset>> of the CFA as the most
                  \* recent CFA-defining instruction left it
    \* -- SpecListing: eh_frame, the frame listing
    ls_pc,        \* "entries" | "cie_instrs" | "fde_instrs" | "done"
    opts_address, \* opts.address: <<>> (None) or <<address>>
    cies,         \* the map cies, as the set of the CIEs inserted
    instr_ctx,    \* the EhInstrContext of the listing
    entry,        \* the entry being rendered (the last one read)
    ls_n,         \* number of entries read
    ls_k,         \* number of instructions rendered of this entry
    ls_last,      \* <<>> or <<the last call of print: instr, tracker before>>
    result,       \* how eh_frame ended: kind "running" | "Ok" | "Err" | "panic"
    ls_cut,       \* history: whether an instruction that failed to decode
                  \* ended the loop over the last entry's instructions
    ls_shown,     \* history: whether the last entry read is an FDE whose
                  \* header was printed
    cfa_without_fdes, \* history: <<cfa_reg, cfa_off>> of a tracker fed with
                      \* the CIEs' instructions only, as if no FDE had
                      \* been rendered
    \* -- SpecOverlay: disassemble with the CFI overlay (EhFnCtx)
    ov_fde,       \* the FDE found for the function, with its CIE
    code,         \* the addresses of the function's machine instructions
    ndecoded,     \* number of machine instructions decoded and printed
    ehfn,         \* the EhFnCtx: instr_ctx, curr_loc, cie_shown, instr_index
    out,          \* what was printed: [CFI] lines and machine instructions
    applied       \* history: the instructions handed to print_instr, in
                  \* order, as [src |-> "cie" | "fde", idx |-> place in stream]
    ,
    \* -- SpecSym: addr_to_sym
    symtab,       \* the symbols' st_value, in the table's order
    addr,         \* the address looked up
    sy_pc,        \* "call" | "done"
    found,        \* the Option returned: <<>> or <<index of the symbol>>
    \* -- SpecCodec: value and value_abs
    cd_pc,        \* "value" | "value_abs" | "done" | "panicked"
    cd_args,      \* the arguments: enc, d, pc, ehhdr
    cd_build,     \* whether the build checks arithmetic overflow
    cd_given,     \* history: the value and width the buffer was made from
    cd_val,       \* what value returned, or its panic
    cd_res,       \* what value_abs returned, or its panic
    \* -- SpecHdr: eh_frame_hdr, the unwind-table renderer
    hd_pc,        \* "ptr" | "count" | "table" | "done" | "panicked"
    hd_content,   \* content: version, the three encodings, the bytes after
    hd_addr,      \* pc: the virtual address of the table
    hd_build,     \* whether the build checks arithmetic overflow
    hd_off,       \* off
    hd_nr,        \* nr_entries
    hd_i,         \* number of iterations of the table loop done
    hd_out,       \* the values printed: field, decoded value, address
    hd_fault,     \* the panic and the field it struck, when hd_pc = "panicked"
    hd_given,     \* history: the values the bytes were made from
    hd_resolved,  \* history: for each call of value_abs, the pc it was given
                  \* and the offset in content of the value it resolves
    \* -- SpecFn: do_fn (with the overlay's variables for disassemble)
    fn_pc,        \* "do_fn" | "disassemble" | "done"
    fn_args,      \* args: cfi
    fn_elf,       \* what do_fn looks up: the symbol, its file offset, the
                  \* number of bytes of the file, the FDEs of .eh_frame
    fn_eh,        \* whether eh, the Option<EhFnCtx> of disassemble, is Some
    fn_log,       \* the warnings and reports printed
    fn_result,    \* how do_fn ended: kind "running" | "Ok" | "Err" | "panic"
    \* -- SpecSection: one_section
    se_pc,        \* "range" | "emit" | "done"
    se_sh,        \* the section header: sh_offset, sh_size, nobits
    se_opts,      \* opts: skip, size (<<>> for None), output (whether Some)
    se_nbytes,    \* bytes.len(), the size of the file
    se_build,     \* whether the build checks arithmetic overflow
    index_range,  \* <<>> (None) or <<[start, end]>>
    se_log,       \* the warnings printed
    se_emitted,   \* <<>> or <<[start, end]>>: the bytes exported or dumped
    se_result,    \* how one_section ended
    \* -- SpecMain: main and run
    mn_pc,        \* "run" | "command" | "main" | "exited"
    mn_env,       \* what run finds: args.elf, $ELF, the file, the command
    mn_ret,       \* what run returned to main: kind "running" | "Ok" | "Err"
    mn_stderr,    \* what was written on the standard error
    mn_exit,      \* <<>> or <<how the process ended: its status and what
                  \* ended it>>
    \* -- SpecSymbols: all_symbols, the symbol listing
    sb_pc,        \* "loop" | "done"
    sb_opts,      \* opts: the SymbolsArgs
    sb_n,         \* number of symbols the iterator has yielded
    sb_out,       \* the symbols displayed, in order
    sb_result,    \* "running" | "returns" | "panic"
    \* -- SpecViews: the two views of .eh_frame, eh and one_section
    vw_sh,        \* the section header of .eh_frame: sh_addr, sh_offset
    vw_fdes,      \* the FDEs of the section, as they are encoded
    vw_base,      \* per view, <<>> or <<the base address given to eh_frame>>
    vw_out,       \* per view, the PC ranges rendered so far
    \* -- SpecOffset: symbol_file_offset
    so_pc,        \* "call" | "done"
    so_elf,       \* the symbol found for the name, the program headers
    so_ret        \* the Option returned: <<>> or <<offset>>

so_vars == <<so_pc, so_elf, so_ret>>

vw_vars == <<vw_sh, vw_fdes, vw_base, vw_out>>

sb_vars == <<sb_pc, sb_opts, sb_n, sb_out, sb_result>>

mn_vars == <<mn_pc, mn_env, mn_ret, mn_stderr, mn_exit>>

tr_vars == <<tr_ctx, tr_n, tr_last, remembered, tr_expect, cfa_defined>>

sy_vars == <<symtab, addr, sy_pc, found>>

cd_vars == <<cd_pc, cd_args, cd_build, cd_given, cd_val, cd_res>>

se_vars == <<se_pc, se_sh, se_opts, se_nbytes, se_build, index_range, se_log,
             se_emitted, se_result>>

fn_vars == <<fn_pc, fn_args, fn_elf, fn_eh, fn_log, fn_result>>

hd_vars == <<hd_pc, hd_content, hd_addr, hd_build, hd_off, hd_nr, hd_i,
             hd_out, hd_fault, hd_given, hd_resolved>>

ov_vars == <<ov_fde, code, ndecoded, ehfn, out, applied>>

ls_vars == <<ls_pc, opts_address, cies, instr_ctx, entry, ls_n, ls_k, ls_last,
             result, ls_cut, ls_shown, cfa_without_fdes>>

\* Initial addresses of FDEs and data alignment factors of CIEs.
InitialAddrs == {16, 32}
DataAligns == {0 - 8, 4}

TrackerIdle ==
    /\ tr_ctx = EhInstrContext(0, 0, 0, 1)
    /\ tr_n = 0
    /\ tr_last = <<>>
    /\ remembered = <<>>
    /\ tr_expect = <<>>
    /\ cfa_defined = <<0, 0>>

\* An entry of the section.  offset is its place in the section; a CIE has
\* its data alignment factor, an FDE the offset of the CIE it refers to and
\* its PC range.
Cie(offset, data_align) ==
    [kind |-> "cie", offset |-> offset, data_align |-> data_align,
     cie_offset |-> offset, initial_address |-> 0, len |-> 0]

Fde(offset, cie_offset, initial_address, len) ==
    [kind |-> "fde", offset |-> offset, data_align |-> 0,
     cie_offset |-> cie_offset, initial_address |-> initial_address,
     len |-> len]

NoEntry == [kind |-> "none", offset |-> 0, data_align |-> 0,
            cie_offset |-> 0, initial_address |-> 0, len |-> 0]

Outcome(kind, what) == [kind |-> kind, what |-> what]

ListingIdle ==
    /\ ls_pc = "idle"
    /\ opts_address = <<>>
    /\ cies = {}
    /\ instr_ctx = EhInstrContext(0, 0, 0, 1)
    /\ entry = NoEntry
    /\ ls_n = 0
    /\ ls_k = 0
    /\ ls_last = <<>>
    /\ result = Outcome("running", "")
    /\ ls_cut = FALSE
    /\ ls_shown = FALSE
    /\ cfa_without_fdes = <<0, 0>>

\* The FDE of the overlay with what it takes from its CIE.
OverlayFde(initial_address, instrs, cie_instrs, data_align) ==
    [initial_address |-> initial_address, instrs |-> instrs,
     cie_instrs |-> cie_instrs, data_align |-> data_align]

EhFnCtx(ctx, curr_loc, cie_shown, instr_index) ==
    [instr_ctx |-> ctx, curr_loc |-> curr_loc,
     cie_shown |-> cie_shown, instr_index |-> instr_index]

OverlayIdle ==
    /\ ov_fde = OverlayFde(0, <<>>, <<>>, 1)
    /\ code = <<>>
    /\ ndecoded = 0
    /\ ehfn = EhFnCtx(EhInstrContext(0, 0, 0, 1), 0, FALSE, 0)
    /\ out = <<>>
    /\ applied = <<>>

SymIdle ==
    /\ symtab = <<>>
    /\ addr = 0
    /\ sy_pc = "idle"
    /\ found = <<>>

CodecIdle ==
    /\ cd_pc = "idle"
    /\ cd_args = [enc |-> 0, d |-> <<>>, pc |-> 0, ehhdr |-> 0]
    /\ cd_build = FALSE
    /\ cd_given = [v |-> 0, w |-> 0]
    /\ cd_val = Outcome("none", "")
    /\ cd_res = Outcome("none", "")

HdrIdle ==
    /\ hd_pc = "idle"
    /\ hd_content = [version |-> 0, ptr_enc |-> 0, count_enc |-> 0,
                     table_enc |-> 0, data |-> <<>>]
    /\ hd_addr = 0
    /\ hd_build = FALSE
    /\ hd_off = 0
    /\ hd_nr = 0
    /\ hd_i = 0
    /\ hd_out = <<>>
    /\ hd_fault = Outcome("none", "")
    /\ hd_given = [ptr |-> 0, n |-> 0, pairs |-> <<>>]
    /\ hd_resolved = <<>>

FnIdle ==
    /\ fn_pc = "idle"
    /\ fn_args = [cfi |-> FALSE]
    /\ fn_elf = [sym |-> <<>>, file_off |-> <<>>, nbytes |-> 0,
                 eh_frame |-> <<>>]
    /\ fn_eh = FALSE
    /\ fn_log = <<>>
    /\ fn_result = Outcome("running", "")

SectionIdle ==
    /\ se_pc = "idle"
    /\ se_sh = [sh_offset |-> 0, sh_size |-> 0, nobits |-> FALSE]
    /\ se_opts = [skip |-> <<>>, size |-> <<>>, output |-> FALSE]
    /\ se_nbytes = 0
    /\ se_build = FALSE
    /\ index_range = <<>>
    /\ se_log = <<>>
    /\ se_emitted = <<>>
    /\ se_result = Outcome("running", "")

MainIdle ==
    /\ mn_pc = "idle"
    /\ mn_env = [elf |-> FALSE, env_ELF |-> FALSE, open |-> "", mmap |-> "",
                 parse |-> "", command |-> ""]
    /\ mn_ret = Outcome("running", "")
    /\ mn_stderr = <<>>
    /\ mn_exit = <<>>

SymbolsIdle ==
    /\ sb_pc = "idle"
    /\ sb_opts = [no_demangle |-> FALSE, no_rust_std |-> FALSE,
                  filter |-> FALSE, local |-> FALSE, global |-> FALSE,
                  weak |-> FALSE, visible |-> FALSE, defined |-> FALSE,
                  type |-> <<>>]
    /\ sb_n = 0
    /\ sb_out = <<>>
    /\ sb_result = "running"

ViewsIdle ==
    /\ vw_sh = [sh_addr |-> 0, sh_offset |-> 0]
    /\ vw_fdes = <<>>
    /\ vw_base = [eh |-> <<0>>, one_section |-> <<0>>]
    /\ vw_out = [eh |-> <<>>, one_section |-> <<>>]

OffsetIdle ==
    /\ so_pc = "idle"
    /\ so_elf = [sym |-> <<>>, program_headers |-> <<>>]
    /\ so_ret = <<>>

\* For each specification, the variables of the other ones and their idle
\* values.
rest_tr == <<ls_vars, ov_vars, sy_vars, cd_vars, hd_vars, fn_vars, se_vars, mn_vars, sb_vars, vw_vars, so_vars>>

RestTrackerIdle ==
    /\ ListingIdle
    /\ OverlayIdle
    /\ SymIdle
    /\ CodecIdle
    /\ HdrIdle
    /\ FnIdle
    /\ SectionIdle
    /\ MainIdle
    /\ SymbolsIdle
    /\ ViewsIdle
    /\ OffsetIdle

rest_ls == <<tr_vars, ov_vars, sy_vars, cd_vars, hd_vars, fn_vars, se_vars, mn_vars, sb_vars, vw_vars, so_vars>>

RestListingIdle ==
    /\ TrackerIdle
    /\ OverlayIdle
    /\ SymIdle
    /\ CodecIdle
    /\ HdrIdle
    /\ FnIdle
    /\ SectionIdle
    /\ MainIdle
    /\ SymbolsIdle
    /\ ViewsIdle
    /\ OffsetIdle

rest_ov == <<tr_vars, ls_vars, sy_vars, cd_vars, hd_vars, fn_vars, se_vars, mn_vars, sb_vars, vw_vars, so_vars>>

RestOverlayIdle ==
    /\ TrackerIdle
    /\ ListingIdle
    /\ SymIdle
    /\ CodecIdle
    /\ HdrIdle
    /\ FnIdle
    /\ SectionIdle
    /\ MainIdle
    /\ SymbolsIdle
    /\ ViewsIdle
    /\ OffsetIdle

rest_sy == <<tr_vars, ls_vars, ov_vars, cd_vars, hd_vars, fn_vars, se_vars, mn_vars, sb_vars, vw_vars, so_vars>>

RestSymIdle ==
    /\ TrackerIdle
    /\ ListingIdle
    /\ OverlayIdle
    /\ CodecIdle
    /\ HdrIdle
    /\ FnIdle
    /\ SectionIdle
    /\ MainIdle
    /\ SymbolsIdle
    /\ ViewsIdle
    /\ OffsetIdle

rest_cd == <<tr_vars, ls_vars, ov_vars, sy_vars, hd_vars, fn_vars, se_vars, mn_vars, sb_vars, vw_vars, so_vars>>

RestCodecIdle ==
    /\ TrackerIdle
    /\ ListingIdle
    /\ OverlayIdle
    /\ SymIdle
    /\ HdrIdle
    /\ FnIdle
    /\ SectionIdle
    /\ MainIdle
    /\ SymbolsIdle
    /\ ViewsIdle
    /\ OffsetIdle

rest_hd == <<tr_vars, ls_vars, ov_vars, sy_vars, cd_vars, fn_vars, se_vars, mn_vars, sb_vars, vw_vars, so_vars>>

RestHdrIdle ==
    /\ TrackerIdle
    /\ ListingIdle
    /\ OverlayIdle
    /\ SymIdle
    /\ CodecIdle
    /\ FnIdle
    /\ SectionIdle
    /\ MainIdle
    /\ SymbolsIdle
    /\ ViewsIdle
    /\ OffsetIdle

rest_fn == <<tr_vars, ls_vars, sy_vars, cd_vars, hd_vars, se_vars, mn_vars, sb_vars, vw_vars, so_vars>>

RestFnIdle ==
    /\ TrackerIdle
    /\ ListingIdle
    /\ SymIdle
    /\ CodecIdle
    /\ HdrIdle
    /\ SectionIdle
    /\ MainIdle
    /\ SymbolsIdle
    /\ ViewsIdle
    /\ OffsetIdle

rest_se == <<tr_vars, ls_vars, ov_vars, sy_vars, cd_vars, hd_vars, fn_vars, mn_vars, sb_vars, vw_vars, so_vars>>

RestSectionIdle ==
    /\ TrackerIdle
    /\ ListingIdle
    /\ OverlayIdle
    /\ SymIdle
    /\ CodecIdle
    /\ HdrIdle
    /\ FnIdle
    /\ MainIdle
    /\ SymbolsIdle
    /\ ViewsIdle
    /\ OffsetIdle

rest_mn == <<tr_vars, ls_vars, ov_vars, sy_vars, cd_vars, hd_vars, fn_vars, se_vars, sb_vars, vw_vars, so_vars>>

RestMainIdle ==
    /\ TrackerIdle
    /\ ListingIdle
    /\ OverlayIdle
    /\ SymIdle
    /\ CodecIdle
    /\ HdrIdle
    /\ FnIdle
    /\ SectionIdle
    /\ SymbolsIdle
    /\ ViewsIdle
    /\ OffsetIdle

rest_sb == <<tr_vars, ls_vars, ov_vars, sy_vars, cd_vars, hd_vars, fn_vars, se_vars, mn_vars, vw_vars, so_vars>>

RestSymbolsIdle ==
    /\ TrackerIdle
    /\ ListingIdle
    /\ OverlayIdle
    /\ SymIdle
    /\ CodecIdle
    /\ HdrIdle
    /\ FnIdle
    /\ SectionIdle
    /\ MainIdle
    /\ ViewsIdle
    /\ OffsetIdle

rest_vw == <<tr_vars, ls_vars, ov_vars, sy_vars, cd_vars, hd_vars, fn_vars, se_vars, mn_vars, sb_vars, so_vars>>

RestViewsIdle ==
    /\ TrackerIdle
    /\ ListingIdle
    /\ OverlayIdle
    /\ SymIdle
    /\ CodecIdle
    /\ HdrIdle
    /\ FnIdle
    /\ SectionIdle
    /\ MainIdle
    /\ SymbolsIdle
    /\ OffsetIdle

rest_so == <<tr_vars, ls_vars, ov_vars, sy_vars, cd_vars, hd_vars, fn_vars, se_vars, mn_vars, sb_vars, vw_vars>>

RestOffsetIdle ==
    /\ TrackerIdle
    /\ ListingIdle
    /\ OverlayIdle
    /\ SymIdle
    /\ CodecIdle
    /\ HdrIdle
    /\ FnIdle
    /\ SectionIdle
    /\ MainIdle
    /\ SymbolsIdle
    /\ ViewsIdle

\* All the variables.
vars == <<tr_vars, ls_vars, ov_vars, sy_vars, cd_vars, hd_vars, fn_vars, se_vars, mn_vars, sb_vars, vw_vars, so_vars>>

(***************************************************************************)
(* SpecTracker: EhInstrContext::print called on a tracker as constructed   *)
(* for an FDE (cfa_reg = Register(0), cfa_off = 0, loc = the FDE's initial *)
(* address, data_align = the CIE's factor).                                *)
(***************************************************************************)
TrackerInit ==
    /\ RestTrackerIdle
    /\ tr_ctx \in { EhInstrContext(0, 0, loc, da) :
                        loc \in InitialAddrs, da \in DataAligns }
    /\ tr_n = 0
    /\ tr_last = <<>>
    /\ remembered = <<>>
    /\ tr_expect = <<>>
    /\ cfa_defined = <<0, 0>>

Front(s) == SubSeq(s, 1, Len(s) - 1)

\* The CFA after a CFA-defining instruction of any of the five forms, the
\* factored forms being scaled by the data alignment factor.
CfaDefinedBy(cfa, instr, data_align) ==
    CASE instr.op = "def_cfa" -> <<instr.r, instr.v>>
      [] instr.op = "def_cfa_sf" -> <<instr.r, instr.v * data_align>>
      [] instr.op = "def_cfa_register" -> <<instr.r, cfa[2]>>
      [] instr.op = "def_cfa_offset" -> <<cfa[1], instr.v>>
      [] instr.op = "def_cfa_offset_sf" -> <<cfa[1], instr.v * data_align>>
      [] OTHER -> cfa

TrackerPrint ==
    /\ tr_n < MaxTrackerInstrs
    /\ \E instr \in CfiAlphabet :
          LET res == EhInstrContext_print(tr_ctx, instr)
          IN  /\ tr_ctx' = res.ctx
              /\ tr_n' = tr_n + 1
              /\ tr_last' = << [instr |-> instr, pre |-> tr_ctx,
                                line |-> res.line] >>
              /\ remembered' =
                    CASE instr.op = "remember_state" ->
                            Append(remembered, tr_ctx)
                      [] instr.op = "restore_state" /\ remembered # <<>> ->
                            Front(remembered)
                      [] OTHER -> remembered
              /\ tr_expect' =
                    IF instr.op = "restore_state" /\ remembered # <<>>
                    THEN << remembered[Len(remembered)] >>
                    ELSE <<>>
              /\ cfa_defined' =
                    CfaDefinedBy(cfa_defined, instr, tr_ctx.data_align)
    /\ UNCHANGED rest_tr

TrackerNext == TrackerPrint

SpecTracker == TrackerInit /\ [][TrackerNext]_vars

----------------------------------------------------------------------------
(***************************************************************************)
(* Claims about the tracker (SpecTracker).                                 *)
(***************************************************************************)

\* The byte offset a line shows, as a signed number.
Shown(line) == IF line.sign = "-" THEN 0 - line.nval ELSE line.nval

\* C6: for every instruction that carries a factored offset (offset,
\* offset_extended_sf, val_offset, val_offset_sf, def_cfa_sf,
\* def_cfa_offset_sf) the byte offset the tracker renders is
\* factored_offset * data_align, and for the two CFA forms it is also the
\* offset the tracker keeps.
C6_FactoredOffsetScaled ==
    \A c \in { tr_last[i] : i \in DOMAIN tr_last } :
        c.instr.op \in FactoredOps =>
            /\ c.line.note \in {"rule", "cfa"}
            /\ Shown(c.line) = c.instr.v * c.pre.data_align
            /\ c.instr.op \in {"def_cfa_sf", "def_cfa_offset_sf"} =>
                    tr_ctx.cfa_off = c.instr.v * c.pre.data_align

\* C7: def_cfa(r, o) sets cfa_reg = r and cfa_off = o; def_cfa_register(r)
\* sets cfa_reg = r, keeps cfa_off and renders the kept offset;
\* def_cfa_offset(o) sets cfa_off = o, keeps cfa_reg and renders the kept
\* register; none of the three changes loc or data_align.
C7_CfaRedefinition ==
    \A c \in { tr_last[i] : i \in DOMAIN tr_last } :
        /\ c.instr.op = "def_cfa" =>
                /\ tr_ctx.cfa_reg = c.instr.r
                /\ tr_ctx.cfa_off = c.instr.v
        /\ c.instr.op = "def_cfa_register" =>
                /\ tr_ctx.cfa_reg = c.instr.r
                /\ tr_ctx.cfa_off = c.pre.cfa_off
                /\ c.line.note = "cfa"
                /\ c.line.nreg = c.instr.r
                /\ Shown(c.line) = c.pre.cfa_off
        /\ c.instr.op = "def_cfa_offset" =>
                /\ tr_ctx.cfa_off = c.instr.v
                /\ tr_ctx.cfa_reg = c.pre.cfa_reg
                /\ c.line.note = "cfa"
                /\ c.line.nreg = c.pre.cfa_reg
                /\ Shown(c.line) = c.instr.v
        /\ c.instr.op \in CfaOps =>
                /\ tr_ctx.loc = c.pre.loc
                /\ tr_ctx.data_align = c.pre.data_align

\* C7's case: def_cfa_register(6) applied when the CFA was %7 + 8.
C7_Witness ==
    /\ tr_last # <<>>
    /\ tr_last[1].instr = Instr("def_cfa_register", 6, 0)
    /\ tr_last[1].pre.cfa_reg = 7
    /\ tr_last[1].pre.cfa_off = 8
    /\ tr_ctx.cfa_reg = 6
    /\ tr_ctx.cfa_off = 8

\* C8: after remember_state, any instructions, and the matching
\* restore_state, cfa_reg and cfa_off are those the tracker had when
\* remember_state was applied.
C8_RestoreStateRestores ==
    \A saved \in { tr_expect[i] : i \in DOMAIN tr_expect } :
        /\ tr_ctx.cfa_reg = saved.cfa_reg
        /\ tr_ctx.cfa_off = saved.cfa_off

\* C11: for offset(register, factored_offset) with
\* k = factored_offset * data_align, the line shows the register as saved
\* at cfa - |k| when k < 0 and at cfa + k when k >= 0; with
\* data_align = -8 and factored_offset = 2 the line shows cfa - 16.
C11_OffsetRule ==
    \A c \in { tr_last[i] : i \in DOMAIN tr_last } :
        c.instr.op = "offset" =>
            LET k == c.instr.v * c.pre.data_align
            IN  /\ c.line.note = "rule"
                /\ c.line.nreg = c.instr.r
                /\ k < 0  => c.line.sign = "-" /\ c.line.nval = 0 - k
                /\ k >= 0 => c.line.sign = "+" /\ c.line.nval = k
                /\ (c.pre.data_align = 0 - 8 /\ c.instr.v = 2) =>
                        c.line.sign = "-" /\ c.line.nval = 16

\* C11's case: offset(6, 2) under a data alignment factor of -8.
C11_Witness ==
    /\ tr_last # <<>>
    /\ tr_last[1].instr = Instr("offset", 6, 2)
    /\ tr_last[1].pre.data_align = 0 - 8
    /\ tr_last[1].line.sign = "-"
    /\ tr_last[1].line.nval = 16

\* C28: the register that def_cfa_offset renders as kept and the offset
\* that def_cfa_register renders as kept are those established by the most
\* recent CFA-defining instruction, whichever form it had (def_cfa,
\* def_cfa_sf, def_cfa_register, def_cfa_offset, def_cfa_offset_sf).
C28_KeptPartIsTheLatest ==
    [][ tr_n' = tr_n + 1 =>
            LET c == tr_last'[1]
            IN  /\ c.instr.op = "def_cfa_offset" =>
                        c.line.nreg = cfa_defined[1]
                /\ c.instr.op = "def_cfa_register" =>
                        Shown(c.line) = cfa_defined[2]
      ]_vars

\* C27: after set_loc(address) the tracker's location equals address, and
\* an advance_loc(delta) that follows it renders loc = address + delta.
C27_SetLocMovesTheCursor ==
    [][ tr_n' = tr_n + 1 =>
            LET c == tr_last'[1]
            IN  /\ c.instr.op = "set_loc" => tr_ctx'.loc = c.instr.v
                /\ ( /\ tr_last # <<>>
                     /\ tr_last[1].instr.op = "set_loc"
                     /\ c.instr.op = "advance_loc" )
                    => c.line.nval = tr_last[1].instr.v + c.instr.v
      ]_vars

----------------------------------------------------------------------------
(***************************************************************************)
(* SpecListing: eh_frame (the frame listing), one action per iteration of  *)
(* its loops.  The entries iterator and the instruction iterators are      *)
(* lazy: what they yield is chosen when they are asked.                    *)
(***************************************************************************)
FdeLens == {8}

\* The instructions the entries of the listed section are made of.
ListingAlphabet ==
    { Instr("set_loc", NoReg, 40),
      Instr("advance_loc", NoReg, 4),
      Instr("def_cfa", 7, 8),
      Instr("def_cfa_register", 6, 0),
      Instr("def_cfa_offset", NoReg, 16),
      Instr("def_cfa_offset_sf", NoReg, 2),
      Instr("offset", 16, 1),
      Instr("nop", NoReg, 0) }

\* Lines 41-48 of eh: the address filter handed to eh_frame, from
\* opts.symbol (here the st_value of the symbol it names, when given) and
\* opts.address.
eh_address(symbol, address) == IF symbol # <<>> THEN symbol ELSE address

\* The address filter: none, the st_value of a symbol, an address given
\* directly.
OptsAddresses ==
    { eh_address(symbol, address) :
        symbol \in {<<>>, <<16>>}, address \in {<<>>, <<24>>, <<31>>} }

\* A faulty test, which takes the end of the range for a part of it.
contains_end_included(fde, address) ==
    fde.initial_address <= address /\ address <= fde.initial_address + fde.len

\* FrameDescriptionEntry::contains
contains(fde, address) ==
    fde.initial_address <= address /\ address < fde.initial_address + fde.len

\* The state at line 82: a fresh tracker, an empty map, no entry read.
ListingInit ==
    /\ RestListingIdle
    /\ ls_pc = "entries"
    /\ opts_address \in OptsAddresses
    /\ cies = {}
    /\ instr_ctx = EhInstrContext(0, 0, 0, 1)
    /\ entry = NoEntry
    /\ ls_n = 0
    /\ ls_k = 0
    /\ ls_last = <<>>
    /\ result = Outcome("running", "")
    /\ ls_cut = FALSE
    /\ ls_shown = FALSE
    /\ cfa_without_fdes = <<0, 0>>

\* entries.next() yields a CIE: its header is printed and data_align set.
NextCie ==
    /\ ls_pc = "entries"
    /\ ls_n < MaxEntries
    /\ \E da \in DataAligns :
          /\ entry' = Cie(ls_n, da)
          /\ instr_ctx' = [instr_ctx EXCEPT !.data_align = da]
    /\ ls_n' = ls_n + 1
    /\ ls_k' = 0
    /\ ls_last' = <<>>
    /\ ls_pc' = "cie_instrs"
    /\ UNCHANGED <<opts_address, cies, result, cfa_without_fdes>>
    /\ ls_cut' = FALSE
    /\ ls_shown' = FALSE
    /\ UNCHANGED rest_ls

\* One instruction of the CIE is rendered.
CieInstr ==
    /\ ls_pc = "cie_instrs"
    /\ ls_k < MaxEntryInstrs
    /\ \E instr \in ListingAlphabet :
          /\ instr_ctx' = EhInstrContext_print(instr_ctx, instr).ctx
          /\ cfa_without_fdes' =
                LET ctx == EhInstrContext_print(
                               [instr_ctx EXCEPT
                                    !.cfa_reg = cfa_without_fdes[1],
                                    !.cfa_off = cfa_without_fdes[2]],
                               instr).ctx
                IN  <<ctx.cfa_reg, ctx.cfa_off>>
          /\ ls_last' = << [instr |-> instr, pre |-> instr_ctx] >>
    /\ ls_k' = ls_k + 1
    /\ UNCHANGED <<ls_pc, opts_address, cies, entry, ls_n, result>>
    /\ UNCHANGED <<ls_cut, ls_shown>>
    /\ UNCHANGED rest_ls

\* The loop over the CIE's instructions ends and the CIE is inserted in the
\* map.  instr_iter.next().unwrap_or(None) ends the loop the same way when
\* the iterator is exhausted (cut = FALSE) and when it fails to decode an
\* instruction (cut = TRUE).
CieLoopEnds(cut) ==
    /\ ls_pc = "cie_instrs"
    /\ cies' = cies \cup {entry}
    /\ ls_pc' = "entries"
    /\ ls_cut' = cut
    /\ UNCHANGED ls_shown
    /\ UNCHANGED <<opts_address, instr_ctx, entry, ls_n, ls_k, ls_last,
                   result, cfa_without_fdes>>
    /\ UNCHANGED rest_ls

CieEnd == CieLoopEnds(FALSE)

CieInstrError == CieLoopEnds(TRUE)

\* A faulty start of an FDE, which leaves loc where the last entry left it.
FdeStart_keeps_loc(ctx, fde) == ctx

\* The tracker when the rendering of an FDE's instructions begins.
FdeStart(ctx, fde) == [ctx EXCEPT !.loc = fde.initial_address]

\* entries.next() yields an FDE: it is resolved against the map (indexing
\* the map with an offset it does not hold panics), filtered by
\* opts.address, and its header printed.
NextFde ==
    /\ ls_pc = "entries"
    /\ ls_n < MaxEntries
    /\ \E ref \in 0 .. (MaxEntries - 1), ia \in InitialAddrs, len \in FdeLens :
          LET fde == Fde(ls_n, ref, ia, len)
          IN  /\ entry' = fde
              /\ IF \A c \in cies : c.offset # ref
                  THEN /\ result' = Outcome("panic", "cies[&offset.0]")
                       /\ ls_pc' = "done"
                       /\ ls_shown' = FALSE
                       /\ UNCHANGED instr_ctx
                  ELSE IF opts_address # <<>> /\ ~contains(fde, opts_address[1])
                  THEN /\ ls_pc' = "entries"
                       /\ ls_shown' = FALSE
                       /\ UNCHANGED <<result, instr_ctx>>
                  ELSE /\ instr_ctx' = FdeStart(instr_ctx, fde)
                       /\ ls_pc' = "fde_instrs"
                       /\ ls_shown' = TRUE
                       /\ UNCHANGED result
    /\ ls_n' = ls_n + 1
    /\ ls_k' = 0
    /\ ls_last' = <<>>
    /\ UNCHANGED <<opts_address, cies, cfa_without_fdes>>
    /\ ls_cut' = FALSE
    /\ UNCHANGED rest_ls

\* One instruction of the FDE is rendered.
FdeInstr ==
    /\ ls_pc = "fde_instrs"
    /\ ls_k < MaxEntryInstrs
    /\ \E instr \in ListingAlphabet :
          /\ instr_ctx' = EhInstrContext_print(instr_ctx, instr).ctx
          /\ ls_last' = << [instr |-> instr, pre |-> instr_ctx] >>
    /\ ls_k' = ls_k + 1
    /\ UNCHANGED <<ls_pc, opts_address, cies, entry, ls_n, result,
                   cfa_without_fdes>>
    /\ UNCHANGED <<ls_cut, ls_shown>>
    /\ UNCHANGED rest_ls

\* The loop over the FDE's instructions ends: the iterator is exhausted
\* (cut = FALSE) or fails to decode an instruction (cut = TRUE).
FdeLoopEnds(cut) ==
    /\ ls_pc = "fde_instrs"
    /\ ls_pc' = "entries"
    /\ ls_cut' = cut
    /\ UNCHANGED ls_shown
    /\ UNCHANGED <<opts_address, cies, instr_ctx, entry, ls_n, ls_k, ls_last,
                   result, cfa_without_fdes>>
    /\ UNCHANGED rest_ls

FdeEnd == FdeLoopEnds(FALSE)

FdeInstrError == FdeLoopEnds(TRUE)

\* entries.next() yields None: eh_frame returns Ok(()).
EndOfEntries ==
    /\ ls_pc = "entries"
    /\ result' = Outcome("Ok", "")
    /\ ls_pc' = "done"
    /\ UNCHANGED <<opts_address, cies, instr_ctx, entry, ls_n, ls_k, ls_last,
                   cfa_without_fdes>>
    /\ UNCHANGED <<ls_cut, ls_shown>>
    /\ UNCHANGED rest_ls

\* entries.next() fails: eh_frame returns the error with its context.
EntryParseError ==
    /\ ls_pc = "entries"
    /\ result' = Outcome("Err", "failed to parse entry")
    /\ ls_pc' = "done"
    /\ UNCHANGED <<opts_address, cies, instr_ctx, entry, ls_n, ls_k, ls_last,
                   cfa_without_fdes>>
    /\ UNCHANGED <<ls_cut, ls_shown>>
    /\ UNCHANGED rest_ls

ListingNext ==
    \/ NextCie \/ CieInstr \/ CieEnd \/ CieInstrError
    \/ NextFde \/ FdeInstr \/ FdeEnd \/ FdeInstrError
    \/ EndOfEntries \/ EntryParseError

SpecListing == ListingInit /\ [][ListingNext]_vars

(***************************************************************************)
(* Claims about the frame listing (SpecListing).                           *)
(***************************************************************************)

\* C5: when the scan meets an FDE whose CIE offset is not in the map, it
\* returns an error value to its caller; it does not panic.
C5_UnknownCieIsAnError ==
    ( /\ ls_pc = "done"
      /\ entry.kind = "fde"
      /\ \A c \in cies : c.offset # entry.cie_offset )
    => result.kind = "Err"

\* C9: when the rendering of an entry begins, cfa_reg and cfa_off do not
\* carry values left by the instructions of a previously rendered FDE:
\* they are what they would be had no FDE been rendered before.
C9_EntryStartsWithoutFdeLeftovers ==
    (ls_pc \in {"cie_instrs", "fde_instrs"} /\ ls_k = 0)
    => /\ instr_ctx.cfa_reg = cfa_without_fdes[1]
       /\ instr_ctx.cfa_off = cfa_without_fdes[2]

\* C10: within one FDE's instruction stream the location cursor starts at
\* the FDE's initial address, advance_loc(delta) makes it loc + delta, and
\* no instruction moves it backward.
C10_LocationNeverDecreases ==
    ls_pc = "fde_instrs" =>
        /\ ls_k = 0 => instr_ctx.loc = entry.initial_address
        /\ \A c \in { ls_last[i] : i \in DOMAIN ls_last } :
              /\ instr_ctx.loc >= c.pre.loc
              /\ c.pre.loc >= entry.initial_address
              /\ c.instr.op = "advance_loc" =>
                    instr_ctx.loc = c.pre.loc + c.instr.v

\* C10's case: a later FDE, after two advance_loc(4), is at its initial
\* address + 8.
C10_Witness ==
    /\ ls_pc = "fde_instrs"
    /\ ls_k = 2
    /\ ls_n = 3
    /\ ls_last # <<>>
    /\ ls_last[1].instr = Instr("advance_loc", NoReg, 4)
    /\ ls_last[1].pre.loc = entry.initial_address + 4
    /\ instr_ctx.loc = entry.initial_address + 8

\* An FDE was read whose CIE is in the map.
FdeRead == entry.kind = "fde" /\ result.kind # "panic"

\* C23: with an address filter A, an FDE is rendered if and only if
\* initial_address <= A < initial_address + length: it is not rendered for
\* A = initial_address + length nor for A = initial_address - 1.
C23_FilterKeepsContainingFdes ==
    (FdeRead /\ opts_address # <<>>) =>
        LET A == opts_address[1]
        IN  /\ ls_shown <=>
                  /\ entry.initial_address <= A
                  /\ A < entry.initial_address + entry.len
            /\ A = entry.initial_address + entry.len => ~ ls_shown
            /\ A = entry.initial_address - 1 => ~ ls_shown
            /\ ls_pc = "fde_instrs" => ls_shown

\* C23's case: under the filter 24 the FDE of [16, 24) was read and
\* skipped: the next entry is asked for and nothing of it was rendered.
C23_Witness ==
    /\ opts_address = <<24>>
    /\ entry.kind = "fde"
    /\ entry.initial_address = 16
    /\ entry.len = 8
    /\ ls_pc = "entries"
    /\ ls_k = 0
    /\ ~ ls_shown
    /\ result.kind = "running"

\* The CIE an FDE refers to: the one cies[&offset.0] yields.
CieOf(fde) == CHOOSE c \in cies : c.offset = fde.cie_offset

\* C24: while an FDE's instructions are rendered, the data alignment
\* factor that scales factored offsets is that of the CIE the FDE refers
\* to, whatever CIEs were parsed between that CIE and the FDE.
C24_FdeUsesItsCieFactor ==
    ls_pc = "fde_instrs" => instr_ctx.data_align = CieOf(entry).data_align

\* C18: when decoding a call-frame instruction fails part-way through a
\* CIE's or an FDE's instruction stream, the listing surfaces a structured,
\* reportable failure: it does not stop at that point and go on as if the
\* stream had ended there.
C18_DecodeFailureSurfaces ==
    ls_cut => /\ ls_pc = "done"
              /\ result.kind = "Err"

----------------------------------------------------------------------------
(***************************************************************************)
(* SpecOverlay: disassemble with opts.cfi, after EhFnCtx::new found the    *)
(* FDE of the function.  One action per iteration of the decoding loop:    *)
(* at_ip(instr.ip()) and the printing of the machine instruction.          *)
(***************************************************************************)

\* The FDE's instruction streams.
OverlayAlphabet ==
    { Instr("advance_loc", NoReg, 1), Instr("advance_loc", NoReg, 4),
      Instr("def_cfa_offset", NoReg, 16),
      Instr("def_cfa_register", 6, 0),
      Instr("set_loc", NoReg, 40),
      Instr("nop", NoReg, 0) }

RECURSIVE Streams(_, _)
Streams(alphabet, n) ==
    IF n = 0 THEN { <<>> }
    ELSE LET shorter == Streams(alphabet, n - 1)
         IN  shorter \cup { Append(s, i) : s \in shorter, i \in alphabet }

\* The initial instructions of the CIE: they set the initial rules (as
\* compilers emit them, padded with nops) and hold no advance_loc.
CiePrograms ==
    { <<>>,
      << Instr("def_cfa", 7, 8), Instr("offset", 16, 1) >>,
      << Instr("def_cfa", 7, 8), Instr("offset", 16, 1),
         Instr("nop", NoReg, 0), Instr("nop", NoReg, 0) >> }

\* Lengths of machine instructions and where in the FDE's range the
\* function's symbol lies.
InsnLens == {1, 4}
StartOffsets == {0, 2}

\* Decoder: the addresses of the instructions decoded from ip on.
RECURSIVE Addresses(_, _)
Addresses(ip, lens) ==
    IF lens = <<>> THEN <<>>
    ELSE <<ip>> \o Addresses(ip + Head(lens), Tail(lens))

CodeLens == Streams(InsnLens, MaxCode) \ { <<>> }

\* What the overlay prints.
CfiItem(src, idx, line) ==
    [kind |-> "cfi", src |-> src, idx |-> idx, ip |-> 0, line |-> line]

InsnItem(ip) ==
    [kind |-> "insn", src |-> "code", idx |-> 0, ip |-> ip,
     line |-> Plain(Instr("", NoReg, 0), "none")]

\* The state at line 165: EhFnCtx::new has returned.
OverlayInit ==
    /\ RestOverlayIdle
    /\ \E ia \in InitialAddrs, da \in DataAligns,
          instrs \in Streams(OverlayAlphabet, MaxFdeInstrs),
          cie_instrs \in CiePrograms,
          start \in StartOffsets, lens \in CodeLens :
          /\ ov_fde = OverlayFde(ia, instrs, cie_instrs, da)
          /\ code = Addresses(ia + start, lens)
          /\ ehfn = EhFnCtx(EhInstrContext(0, 0, ia, da), ia, FALSE, 0)
    /\ ndecoded = 0
    /\ out = <<>>
    /\ applied = <<>>

\* A faulty print_instr, which annotates a nop like any other instruction.
print_instr_shows_nop(st, instr, src, idx) ==
    LET logged == [st EXCEPT !.applied = Append(@, [src |-> src, idx |-> idx])]
    IN  IF instr.op = "advance_loc"
        THEN [logged EXCEPT !.eh.curr_loc = @ + instr.v]
        ELSE LET res == EhInstrContext_print(st.eh.instr_ctx, instr)
             IN  [logged EXCEPT
                     !.eh.instr_ctx = res.ctx,
                     !.printed = Append(@, CfiItem(src, idx, res.line))]

\* EhFnCtx::print_instr, on st = [eh, printed, applied].
print_instr(st, instr, src, idx) ==
    LET logged == [st EXCEPT !.applied = Append(@, [src |-> src, idx |-> idx])]
    IN  CASE instr.op = "nop" -> logged
          [] instr.op = "advance_loc" ->
                [logged EXCEPT !.eh.curr_loc = @ + instr.v]
          [] OTHER ->
                LET res == EhInstrContext_print(st.eh.instr_ctx, instr)
                IN  [logged EXCEPT
                        !.eh.instr_ctx = res.ctx,
                        !.printed = Append(@, CfiItem(src, idx, res.line))]

\* Lines 255-258: the CIE's instructions from place i on.
RECURSIVE ReplayCie(_, _, _)
ReplayCie(st, instrs, i) ==
    IF i > Len(instrs) THEN st
    ELSE ReplayCie(print_instr(st, instrs[i], "cie", i), instrs, i + 1)

\* A faulty replay of the CIE, which forgets that it was shown.
ShowCie_forgets(st, instrs) ==
    IF st.eh.cie_shown THEN st ELSE ReplayCie(st, instrs, 1)

\* Lines 254-260.
ShowCie(st, instrs) ==
    IF st.eh.cie_shown THEN st
    ELSE [ReplayCie(st, instrs, 1) EXCEPT !.eh.cie_shown = TRUE]

\* A faulty test, which also stops at an instruction located at ip.
StopsReplay_at_ip(ip, curr_loc) == ip <= curr_loc

\* Line 270.
StopsReplay(ip, curr_loc) == ip < curr_loc

\* A faulty step, which does not count a nop.
FdeStep_skips_nop(st, instr, pos) ==
    LET done == print_instr(st, instr, "fde", pos)
    IN  IF instr.op = "nop" THEN done
        ELSE [done EXCEPT !.eh.instr_index = @ + 1]

\* Lines 273-274; pos is the place of instr in the FDE's stream.
FdeStep(st, instr, pos) ==
    [print_instr(st, instr, "fde", pos) EXCEPT !.eh.instr_index = @ + 1]

\* Lines 269-275: iter has yielded pos instructions.
RECURSIVE ReplayFde(_, _, _, _)
ReplayFde(st, instrs, pos, ip) ==
    IF pos >= Len(instrs) THEN st
    ELSE IF StopsReplay(ip, st.eh.curr_loc) THEN st
    ELSE ReplayFde(FdeStep(st, instrs[pos + 1], pos + 1), instrs, pos + 1, ip)

\* EhFnCtx::at_ip.
at_ip(self, ip) ==
    LET st0 == [eh |-> self, printed |-> <<>>, applied |-> <<>>]
        st1 == ShowCie(st0, ov_fde.cie_instrs)
    IN  IF st1.eh.instr_index > Len(ov_fde.instrs)
        THEN st1    \* lines 263-267: the iterator ends while skipping
        ELSE ReplayFde(st1, ov_fde.instrs, st1.eh.instr_index, ip)

\* Lines 165-197: one machine instruction is decoded, the overlay is asked
\* for its address, and the instruction is printed.
Disassemble ==
    /\ ndecoded < Len(code)
    /\ LET ip == code[ndecoded + 1]
           st == at_ip(ehfn, ip)
       IN  /\ ehfn' = st.eh
           /\ out' = out \o st.printed \o << InsnItem(ip) >>
           /\ applied' = applied \o st.applied
    /\ ndecoded' = ndecoded + 1
    /\ UNCHANGED <<ov_fde, code>>

OverlayNext == Disassemble /\ UNCHANGED rest_ov

SpecOverlay == OverlayInit /\ [][OverlayNext]_vars

(***************************************************************************)
(* Claims about the overlay (SpecOverlay).                                 *)
(***************************************************************************)

\* The location of the FDE's i-th instruction: the FDE's initial address
\* plus the deltas of the advance_loc's before it.
RECURSIVE LocationOf(_)
LocationOf(i) ==
    IF i <= 1 THEN ov_fde.initial_address
    ELSE LocationOf(i - 1)
         + (IF ov_fde.instrs[i - 1].op = "advance_loc"
            THEN ov_fde.instrs[i - 1].v ELSE 0)

\* The FDE's instructions that print an annotation.
Annotating == { i \in DOMAIN ov_fde.instrs :
                    ov_fde.instrs[i].op \notin {"nop", "advance_loc"} }

InsnAt == { p \in DOMAIN out : out[p].kind = "insn" }

\* The places of out between the machine instruction before p and p.
Before(p) ==
    { q \in DOMAIN out : q < p /\ \A m \in InsnAt : m < p => m < q }

\* The FDE's annotations that belong right before the machine instruction
\* printed at p: located at or below its address, and above the addresses
\* of all the machine instructions before it.
DueAt(p) ==
    { i \in Annotating :
        /\ LocationOf(i) <= out[p].ip
        /\ \A m \in InsnAt : m < p => out[m].ip < LocationOf(i) }

C2_CieReplayedOnceFirst ==
    LET n == Len(ov_fde.cie_instrs)
    IN  /\ ndecoded = 0 => applied = <<>> /\ out = <<>>
        /\ ndecoded >= 1 =>
              /\ Len(applied) >= n
              /\ \A k \in DOMAIN applied :
                    IF k <= n THEN applied[k] = [src |-> "cie", idx |-> k]
                    ELSE applied[k].src = "fde"
              /\ \A p \in DOMAIN out : \A q \in DOMAIN out :
                    (out[p].src = "cie" /\ out[q].src # "cie") => p < q
              /\ Cardinality({ p \in DOMAIN out : out[p].src = "cie" })
                    = Cardinality({ i \in DOMAIN ov_fde.cie_instrs :
                                        ov_fde.cie_instrs[i].op # "nop" })

\* C2's case: a CIE of four instructions, two machine instructions printed,
\* instructions of the FDE applied in the second call.
C2_Witness ==
    /\ Len(ov_fde.cie_instrs) = 4
    /\ ndecoded = 2
    /\ ehfn.cie_shown
    /\ out[1].src = "cie" /\ out[2].src = "cie" /\ out[3].kind = "insn"
    /\ out[Len(out) - 1].src = "fde"

\* The FDE's instructions handed to print_instr, in order.
FdeApplied(log) == SelectSeq(log, LAMBDA a : a.src = "fde")

\* C3: across calls of at_ip the cursor instr_index never decreases and
\* never exceeds the number of instructions of the FDE; the instructions
\* of the FDE are applied at most once each, in stream order, and a call
\* begins with the instruction at which the one before stopped.
C3_CursorNeverRewinds ==
    [][ /\ ehfn'.instr_index >= ehfn.instr_index
        /\ ehfn'.instr_index <= Len(ov_fde.instrs)
        /\ Len(FdeApplied(applied)) = ehfn.instr_index
        /\ Len(FdeApplied(applied')) = ehfn'.instr_index
        /\ \A k \in 1 .. ehfn'.instr_index : FdeApplied(applied')[k].idx = k
      ]_vars

\* C3's case: the replay stopped inside the stream at the first machine
\* instruction and was resumed and finished at the second.
C3_Witness ==
    /\ ndecoded = 2
    /\ Len(ov_fde.instrs) = 3
    /\ ehfn.instr_index = 3
    /\ Len(out) = 3
    /\ out[2].src = "fde"
    /\ out[2].idx = 3

\* The instructions of a stream that print an annotation.
Annotated(instrs) ==
    SelectSeq(instrs, LAMBDA i : i.op \notin {"nop", "advance_loc"})

\* The instructions of the [CFI] lines of a part of the output.
RECURSIVE InstrsOf(_)
InstrsOf(lines) ==
    IF lines = <<>> THEN <<>>
    ELSE << Instr(lines[1].line.mn, lines[1].line.r, lines[1].line.v) >>
            \o InstrsOf(Tail(lines))

\* The disassembly is over, and its last machine instruction lies at or
\* after the final location of the FDE's instructions.
WholeFunctionShown ==
    /\ code # <<>>
    /\ ndecoded = Len(code)
    /\ code[Len(code)] >= LocationOf(Len(ov_fde.instrs) + 1)

----------------------------------------------------------------------------
(***************************************************************************)
(* SpecSym: addr_to_sym on a symbol table and an address.                  *)
(***************************************************************************)
RECURSIVE Tables(_)
Tables(n) ==
    IF n = 0 THEN { <<>> }
    ELSE LET shorter == Tables(n - 1)
         IN  shorter \cup { Append(t, v) : t \in shorter, v \in 0 .. MaxAddr }

\* Lines 162-166: the loop over the symbols after the first, from place i
\* on; curr is the place of curr_sym.
RECURSIVE ScanSyms(_, _, _, _)
ScanSyms(tab, address, curr, i) ==
    IF i > Len(tab) THEN curr
    ELSE IF tab[i] <= address /\ tab[i] > tab[curr]
         THEN ScanSyms(tab, address, i, i + 1)
         ELSE ScanSyms(tab, address, curr, i + 1)

addr_to_sym(tab, address) ==
    IF tab = <<>> THEN <<>>                 \* iter.next()? on an empty table
    ELSE LET curr == ScanSyms(tab, address, 1, 2)
         IN  IF tab[curr] > address THEN <<>> ELSE <<curr>>

SymInit ==
    /\ RestSymIdle
    /\ symtab \in Tables(MaxSyms)
    /\ addr \in 0 .. MaxAddr
    /\ sy_pc = "call"
    /\ found = <<>>

AddrToSym ==
    /\ sy_pc = "call"
    /\ found' = addr_to_sym(symtab, addr)
    /\ sy_pc' = "done"
    /\ UNCHANGED <<symtab, addr>>

SymNext == AddrToSym /\ UNCHANGED rest_sy

SpecSym == SymInit /\ [][SymNext]_vars

(***************************************************************************)
(* Claims about the symbol lookup (SpecSym).                               *)
(***************************************************************************)

\* C4: for every symbol table, in any order, and every address,
\* addr_to_sym returns a symbol whose value is the greatest among the
\* values <= address, and returns no match only when every symbol's value
\* exceeds the address.
C4_GreatestSymbolAtOrBelow ==
    sy_pc = "done" =>
        /\ found = <<>> <=> \A i \in DOMAIN symtab : symtab[i] > addr
        /\ \A f \in { found[k] : k \in DOMAIN found } :
              /\ symtab[f] <= addr
              /\ \A i \in DOMAIN symtab :
                    symtab[i] <= addr => symtab[i] <= symtab[f]


----------------------------------------------------------------------------
(***************************************************************************)
(* The pointer encoding: value and value_abs (eh.rs).                      *)
(*                                                                         *)
(* The encoding descriptor is a real byte (0 .. 255).  The bytes of a      *)
(* value's buffer are scaled down so that a 64-bit word fits the checker's *)
(* integers: a buffer byte holds one of ByteRadix values instead of 256,   *)
(* a u16 is two such bytes, a u32 four, a u64 eight, little-endian, with   *)
(* the signed types in two's complement; u64 arithmetic is arithmetic      *)
(* modulo U64 = ByteRadix^8.                                               *)
(***************************************************************************)
Bytes == 0 .. 3

ByteRadix == Cardinality(Bytes)

RECURSIVE Pow(_, _)
Pow(b, n) == IF n = 0 THEN 1 ELSE b * Pow(b, n - 1)

\* The number of values of an integer type of n bytes.
Modulus(n) == Pow(ByteRadix, n)

U64 == Modulus(8)

I64Min == 0 - (U64 \div 2)

I64Max == (U64 \div 2) - 1

\* enum Value
Signed(n) == [signed |-> TRUE, n |-> n]

Unsigned(n) == [signed |-> FALSE, n |-> n]

\* ReadBytesExt::read_u16 / read_u32 / read_u64 ::<LittleEndian> on a buffer
\* holding at least n bytes.
RECURSIVE read_uint(_, _)
read_uint(d, n) ==
    IF n = 0 THEN 0 ELSE d[1] + ByteRadix * read_uint(Tail(d), n - 1)

\* ReadBytesExt::read_i16 / read_i32 / read_i64 ::<LittleEndian>.
read_int(d, n) ==
    LET u == read_uint(d, n)
    IN  IF 2 * u >= Modulus(n) THEN u - Modulus(n) ELSE u

\* The pair value returns.
Decoded(size, val) == [kind |-> "ok", size |-> size, val |-> val]

\* A faulty read, which takes the signed types for unsigned ones.
read_fixed_unsigned(d, n, signed) ==
    IF Len(d) < n
    THEN Outcome("panic", "unwrap on UnexpectedEof")
    ELSE Decoded(n, IF signed THEN Signed(read_uint(d, n))
                              ELSE Unsigned(read_uint(d, n)))

\* One arm of value's match for a fixed width: the read, its unwrap, the
\* cast to 64 bits (which keeps the number) and the tag.
read_fixed(d, n, signed) ==
    IF Len(d) < n
    THEN Outcome("panic", "unwrap on UnexpectedEof")
    ELSE Decoded(n, IF signed THEN Signed(read_int(d, n))
                              ELSE Unsigned(read_uint(d, n)))

value(enc, d) ==
    LET lo == enc % 16
    IN  CASE lo = 1  -> Outcome("panic", "unimplemented: unsigned LEB128")
          [] lo = 2  -> read_fixed(d, 2, FALSE)
          [] lo = 3  -> read_fixed(d, 4, FALSE)
          [] lo = 4  -> read_fixed(d, 8, FALSE)
          [] lo = 9  -> Outcome("panic", "unimplemented: signed LEB128")
          [] lo = 10 -> read_fixed(d, 2, TRUE)
          [] lo = 11 -> read_fixed(d, 4, TRUE)
          [] lo = 12 -> read_fixed(d, 8, TRUE)
          [] OTHER     -> Outcome("panic", "invalid encoding")

\* The address value_abs returns.
Resolved(a) == [kind |-> "ok", addr |-> a]

\* base as i64.
as_i64(n) == IF n > I64Max THEN n - U64 ELSE n

\* A faulty sum, which takes every base for the absolute one.
add_base_ignored(base, v, checks) == Resolved(v.n % U64)

\* The last match of value_abs: (base as i64 + n) as u64 for a signed
\* value, base + n for an unsigned one.  An addition that overflows its
\* type panics in a build with overflow checks and wraps in one without.
add_base(base, v, checks) ==
    LET sum == IF v.signed THEN as_i64(base) + v.n ELSE base + v.n
        overflows == IF v.signed THEN sum < I64Min \/ sum > I64Max
                                 ELSE sum >= U64
    IN  IF overflows /\ checks
        THEN Outcome("panic", "attempt to add with overflow")
        ELSE Resolved(sum % U64)

value_abs(enc, v, pc, ehhdr, checks) ==
    LET app == enc - (enc % 16)
    IN  CASE app = 0  -> add_base(0, v, checks)
          [] app = 16 -> add_base(pc, v, checks)
          [] app = 48 -> add_base(ehhdr, v, checks)
          [] OTHER    -> Outcome("panic", "invalid encoding")


(***************************************************************************)
(* SpecCodec: value called on a buffer made from a known value, then       *)
(* value_abs called on what it returned, as eh_frame_hdr calls them.       *)
(***************************************************************************)
\* Encoding descriptors: the low nibbles value knows, an unknown one (0),
\* the bases value_abs knows, an unknown one (0x20), and the "no value"
\* sentinel 0xff.
EncodingBytes ==
    { lo + app : lo \in {0, 1, 2, 3, 4, 9, 10, 11, 12},
                 app \in {0, 16, 32, 48} } \cup {255}

Widths == {2, 4, 8}

\* The values buffers are made from: around zero and at the ends of each
\* type.
GivenValues ==
    {0 - 1, 0, 1} \cup
    UNION { { Modulus(w) - 1, (Modulus(w) \div 2) - 1, Modulus(w) \div 2,
              0 - (Modulus(w) \div 2) } : w \in Widths }

\* Addresses for pc and for the start of the table.
PcAddrs == {0, 20, I64Max, I64Max + 1, U64 - 1}

EhHdrAddrs == {16, U64 - 2}

\* What follows the value in the buffer.
Tails == {<< >>, <<1>>}

\* The little-endian bytes of u in n bytes.
RECURSIVE to_le_bytes(_, _)
to_le_bytes(u, n) ==
    IF n = 0 THEN << >>
    ELSE <<u % ByteRadix>> \o to_le_bytes(u \div ByteRadix, n - 1)

CodecInit ==
    /\ RestCodecIdle
    /\ cd_pc = "value"
    /\ cd_build \in BOOLEAN
    /\ \E enc \in EncodingBytes, w \in Widths, v \in GivenValues,
          tail \in Tails, pc \in PcAddrs, ehhdr \in EhHdrAddrs :
          /\ 0 - (Modulus(w) \div 2) <= v
          /\ v < Modulus(w)
          /\ cd_args = [enc |-> enc,
                        d |-> to_le_bytes(v % Modulus(w), w) \o tail,
                        pc |-> pc, ehhdr |-> ehhdr]
          /\ cd_given = [v |-> v, w |-> w]
    /\ cd_val = Outcome("none", "")
    /\ cd_res = Outcome("none", "")

\* let (size, val) = value(enc, &content[off..]);
CallValue ==
    /\ cd_pc = "value"
    /\ cd_val' = value(cd_args.enc, cd_args.d)
    /\ cd_pc' = IF cd_val'.kind = "ok" THEN "value_abs" ELSE "panicked"
    /\ UNCHANGED <<cd_args, cd_build, cd_given, cd_res>>
    /\ UNCHANGED rest_cd

\* value_abs(enc, val, pc, ehhdr)
CallValueAbs ==
    /\ cd_pc = "value_abs"
    /\ cd_res' = value_abs(cd_args.enc, cd_val.val, cd_args.pc,
                           cd_args.ehhdr, cd_build)
    /\ cd_pc' = IF cd_res'.kind = "ok" THEN "done" ELSE "panicked"
    /\ UNCHANGED <<cd_args, cd_build, cd_given, cd_val>>
    /\ UNCHANGED rest_cd

CodecNext == CallValue \/ CallValueAbs

SpecCodec == CodecInit /\ [][CodecNext]_vars


----------------------------------------------------------------------------
(***************************************************************************)
(* Claims about the pointer encoding (SpecCodec).                          *)
(***************************************************************************)
LowNibble(enc) == enc % 16

HighNibble(enc) == enc - (enc % 16)

FixedCodes == {2, 3, 4, 10, 11, 12}

KnownBases == {0, 16, 48}

ValueReturned == cd_pc # "value"

ValueAbsReturned == cd_val.kind = "ok" /\ cd_pc \in {"done", "panicked"}

\* C12: value called with an encoding byte whose low nibble is unsigned
\* LEB128 (1), signed LEB128 (9) or any unrecognized code returns a
\* structured decode failure to its caller and does not end the process.
C12_UnsupportedIsDecodeFailure ==
    (ValueReturned /\ LowNibble(cd_args.enc) \notin FixedCodes) =>
        /\ cd_val.kind = "err"
        /\ cd_pc # "panicked"

\* C13: value_abs called with an encoding byte whose high nibble is not
\* absolute (0x00), pc-relative (0x10) or table-start-relative (0x30)
\* returns a structured decode failure and never ends the process.
C13_UnknownBaseIsDecodeFailure ==
    (ValueAbsReturned /\ HighNibble(cd_args.enc) \notin KnownBases)
        => /\ cd_res.kind = "err"
           /\ cd_pc # "panicked"

\* The round trip's case: a fixed-width encoding with a known base, and a
\* buffer that starts with the little-endian bytes, in that width, of a
\* value of the encoding's type.
WidthOf(enc) ==
    CASE LowNibble(enc) \in {2, 10} -> 2
      [] LowNibble(enc) \in {3, 11} -> 4
      [] LowNibble(enc) \in {4, 12} -> 8
      [] OTHER -> 0

SignedEnc(enc) == LowNibble(enc) \in {10, 11, 12}

BaseOf(a) ==
    CASE HighNibble(a.enc) = 16 -> a.pc
      [] HighNibble(a.enc) = 48 -> a.ehhdr
      [] OTHER -> 0

RoundTripCase ==
    /\ cd_pc # "idle"
    /\ LowNibble(cd_args.enc) \in FixedCodes
    /\ HighNibble(cd_args.enc) \in KnownBases
    /\ cd_given.w = WidthOf(cd_args.enc)
    /\ IF SignedEnc(cd_args.enc)
       THEN /\ 0 - (Modulus(cd_given.w) \div 2) <= cd_given.v
            /\ cd_given.v < Modulus(cd_given.w) \div 2
       ELSE /\ 0 <= cd_given.v
            /\ cd_given.v < Modulus(cd_given.w)

DecodesGiven ==
    ValueReturned =>
        cd_val = Decoded(cd_given.w,
                         IF SignedEnc(cd_args.enc) THEN Signed(cd_given.v)
                                                   ELSE Unsigned(cd_given.v))

AddOverflows ==
    IF SignedEnc(cd_args.enc)
    THEN \/ as_i64(BaseOf(cd_args)) + cd_given.v < I64Min
         \/ as_i64(BaseOf(cd_args)) + cd_given.v > I64Max
    ELSE BaseOf(cd_args) + cd_given.v >= U64

----------------------------------------------------------------------------
(***************************************************************************)
(* SpecHdr: eh_frame_hdr, the renderer of the unwind table.  content is    *)
(* the four header bytes (version and the three encoding descriptors, real *)
(* bytes) followed by the encoded values (bytes scaled as for the pointer  *)
(* encoding).  One action per field and one per iteration of the table     *)
(* loop; a panic ends the rendering.  What a field had printed before its  *)
(* panic is not kept.                                                      *)
(***************************************************************************)
MaxPairs == 2   \* (start, fde) pairs present in the table / declared by it

PtrEncs == {27, 3, 255}     \* i32 pc-relative, u32 absolute, no value

CountEncs == {3, 255}       \* u32 absolute, no value

TableEncs == {59, 27, 255}  \* i32 table-relative, i32 pc-relative, no value

HdrAddrs == {1000, 2000}

PtrValues == {8, 12}

PairValues == { <<0 - 2, 7>>, <<5, 9>> }

\* The bytes a value takes under an encoding: none when the encoding has
\* no fixed width.
EncodedAs(enc, v) ==
    CASE LowNibble(enc) \in {2, 10} -> to_le_bytes(v % Modulus(2), 2)
      [] LowNibble(enc) \in {3, 11} -> to_le_bytes(v % Modulus(4), 4)
      [] LowNibble(enc) \in {4, 12} -> to_le_bytes(v % Modulus(8), 8)
      [] OTHER -> << >>

RECURSIVE EncodedPairs(_, _)
EncodedPairs(enc, pairs) ==
    IF pairs = << >> THEN << >>
    ELSE EncodedAs(enc, pairs[1][1]) \o EncodedAs(enc, pairs[1][2])
            \o EncodedPairs(enc, Tail(pairs))

HdrInit ==
    /\ RestHdrIdle
    /\ hd_pc = "ptr"
    /\ hd_addr \in HdrAddrs
    /\ hd_build \in BOOLEAN
    /\ \E ptr_enc \in PtrEncs, count_enc \in CountEncs,
          table_enc \in TableEncs, ptr \in PtrValues,
          n \in 0 .. MaxPairs, m \in 0 .. MaxPairs :
          \E pairs \in [1 .. m -> PairValues] :
              /\ hd_content =
                    [version |-> 1, ptr_enc |-> ptr_enc,
                     count_enc |-> count_enc, table_enc |-> table_enc,
                     data |-> EncodedAs(ptr_enc, ptr)
                                \o EncodedAs(count_enc, n)
                                \o EncodedPairs(table_enc, pairs)]
              /\ hd_given = [ptr |-> ptr, n |-> n, pairs |-> pairs]
    /\ hd_off = 4
    /\ hd_nr = 0
    /\ hd_i = 0
    /\ hd_out = << >>
    /\ hd_fault = Outcome("none", "")
    /\ hd_resolved = << >>

\* &content[off..]
From(content, off) == SubSeq(content.data, off - 3, Len(content.data))

\* One printed value: the field, the Value, and the address printed with
\* it, if any.
Field(what, val, abs) == [what |-> what, val |-> val, abs |-> abs]

HdrPanics(fault) ==
    /\ hd_pc' = "panicked"
    /\ hd_fault' = [kind |-> fault.kind, what |-> fault.what, at |-> hd_pc]
    /\ UNCHANGED <<hd_off, hd_nr, hd_i, hd_out, hd_resolved>>

\* A call of value_abs with pc, for the value read at content[at..].
Resolving(pc, at) == [pc |-> pc, at |-> at]

\* n as usize
as_usize(val) == IF val.n < 0 THEN val.n + U64 ELSE val.n

\* The field ".eh_frame pointer".
ReadPtr ==
    /\ hd_pc = "ptr"
    /\ LET enc == hd_content.ptr_enc
           r == value(enc, From(hd_content, hd_off))
           a == value_abs(enc, r.val, hd_addr + hd_off, hd_addr, hd_build)
       IN  IF r.kind # "ok" THEN HdrPanics(r)
           ELSE IF a.kind # "ok" THEN HdrPanics(a)
           ELSE /\ hd_out' = Append(hd_out,
                                Field("eh_frame_ptr", r.val, <<a.addr>>))
                /\ hd_off' = hd_off + r.size
                /\ hd_pc' = "count"
                /\ hd_resolved' = Append(hd_resolved,
                                         Resolving(hd_addr + hd_off, hd_off))
                /\ UNCHANGED <<hd_nr, hd_i, hd_fault>>
    /\ UNCHANGED <<hd_content, hd_addr, hd_build, hd_given>>
    /\ UNCHANGED rest_hd

\* The field "Nr entries".
ReadCount ==
    /\ hd_pc = "count"
    /\ LET r == value(hd_content.count_enc, From(hd_content, hd_off))
       IN  IF r.kind # "ok" THEN HdrPanics(r)
           ELSE /\ hd_nr' = as_usize(r.val)
                /\ hd_out' = Append(hd_out, Field("nr_entries", r.val, << >>))
                /\ hd_off' = hd_off + r.size
                /\ hd_pc' = "table"
                /\ UNCHANGED <<hd_i, hd_fault, hd_resolved>>
    /\ UNCHANGED <<hd_content, hd_addr, hd_build, hd_given>>
    /\ UNCHANGED rest_hd

\* One iteration of the loop over the table: the first value is resolved
\* with off already moved past it, the second one with off at its start.
ReadPair ==
    /\ hd_pc = "table"
    /\ hd_i < hd_nr
    /\ LET enc == hd_content.table_enc
           r1 == value(enc, From(hd_content, hd_off))
           off1 == hd_off + r1.size
           a1 == value_abs(enc, r1.val, hd_addr + off1, hd_addr, hd_build)
           r2 == value(enc, From(hd_content, off1))
           a2 == value_abs(enc, r2.val, hd_addr + off1, hd_addr, hd_build)
       IN  IF r1.kind # "ok" THEN HdrPanics(r1)
           ELSE IF a1.kind # "ok" THEN HdrPanics(a1)
           ELSE IF r2.kind # "ok" THEN HdrPanics(r2)
           ELSE IF a2.kind # "ok" THEN HdrPanics(a2)
           ELSE /\ hd_out' = hd_out \o << Field("start", r1.val, <<a1.addr>>),
                                          Field("fde", r2.val, <<a2.addr>>) >>
                /\ hd_off' = off1 + r2.size
                /\ hd_i' = hd_i + 1
                /\ hd_resolved' = hd_resolved \o
                        << Resolving(hd_addr + off1, hd_off),
                           Resolving(hd_addr + off1, off1) >>
                /\ UNCHANGED <<hd_pc, hd_nr, hd_fault>>
    /\ UNCHANGED <<hd_content, hd_addr, hd_build, hd_given>>
    /\ UNCHANGED rest_hd

\* The loop over the table ends.
EndTable ==
    /\ hd_pc = "table"
    /\ hd_i >= hd_nr
    /\ hd_pc' = "done"
    /\ UNCHANGED <<hd_content, hd_addr, hd_build, hd_off, hd_nr, hd_i,
                   hd_out, hd_fault, hd_given, hd_resolved>>
    /\ UNCHANGED rest_hd

HdrNext == ReadPtr \/ ReadCount \/ ReadPair \/ EndTable

SpecHdr == HdrInit /\ [][HdrNext]_vars


----------------------------------------------------------------------------
(***************************************************************************)
(* Claims about the renderer of the unwind table (SpecHdr).                *)
(***************************************************************************)
NoValue == {255}

\* The encoding descriptor that governs a field.
EncFor(what) ==
    CASE what \in {"ptr", "eh_frame_ptr"} -> hd_content.ptr_enc
      [] what \in {"count", "nr_entries"} -> hd_content.count_enc
      [] OTHER -> hd_content.table_enc

\* C15: when an encoding descriptor of the header is the "no value"
\* sentinel 0xff, the renderer does not try to decode the values that byte
\* governs: nothing is printed for them and the rendering does not fail on
\* them.
C15_NoValueSuppressed ==
    /\ hd_pc = "panicked" => EncFor(hd_fault.at) \notin NoValue
    /\ \A k \in DOMAIN hd_out : EncFor(hd_out[k].what) \notin NoValue

\* A table whose three encodings have a fixed width and that holds at least
\* the pairs it declares.
WellFormedTable ==
    /\ hd_pc # "idle"
    /\ \A what \in {"ptr", "count", "table"} :
            LowNibble(EncFor(what)) \in FixedCodes
    /\ hd_given.n <= Len(hd_given.pairs)

\* The values such a table was made from, in file order, each with the
\* field it belongs to.
ExpectedFields ==
    [k \in 1 .. (2 + 2 * hd_given.n) |->
        IF k = 1 THEN [what |-> "eh_frame_ptr", v |-> hd_given.ptr]
        ELSE IF k = 2 THEN [what |-> "nr_entries", v |-> hd_given.n]
        ELSE [what |-> IF k % 2 = 1 THEN "start" ELSE "fde",
              v |-> hd_given.pairs[(k - 1) \div 2][IF k % 2 = 1 THEN 1
                                                                ELSE 2]]]

RECURSIVE WidthsUpTo(_)
WidthsUpTo(k) ==
    IF k = 0 THEN 0
    ELSE WidthOf(EncFor(ExpectedFields[k].what)) + WidthsUpTo(k - 1)

\* C16: for a table with header [version, ptr_enc, count_enc, table_enc]
\* the renderer decodes the .eh_frame pointer with ptr_enc, the count N
\* with count_enc and then exactly N (start, fde) pairs with table_enc,
\* from consecutive bytes in file order, its cursor moving by the decoded
\* width after each value; each table-relative value resolves to the
\* table's virtual address + value.
C16_TableDecodedInOrder ==
    WellFormedTable =>
        /\ hd_pc # "panicked"
        /\ Len(hd_out) <= 2 + 2 * hd_given.n
        /\ \A k \in DOMAIN hd_out :
              LET e == ExpectedFields[k]
                  enc == EncFor(e.what)
              IN  /\ hd_out[k].what = e.what
                  /\ hd_out[k].val = IF SignedEnc(enc) THEN Signed(e.v)
                                                       ELSE Unsigned(e.v)
                  /\ HighNibble(enc) = 48 =>
                        hd_out[k].abs = <<hd_addr + e.v>>
        /\ hd_off = 4 + WidthsUpTo(Len(hd_out))
        /\ hd_pc = "done" => Len(hd_out) = 2 + 2 * hd_given.n

\* C29: the program-counter base passed to value_abs for every decoded
\* value (the .eh_frame pointer, each entry's start value and each entry's
\* FDE value) is the virtual address of that value's first byte: the
\* table's address plus the cursor offset before the value is consumed.
C29_PcIsTheValuesAddress ==
    \A k \in DOMAIN hd_resolved :
        hd_resolved[k].pc = hd_addr + hd_resolved[k].at

\* C16's case: the header [1, 0x1b, 0x03, 0x3b] and two pairs, rendered to
\* the end.
C16_Witness ==
    /\ hd_pc = "done"
    /\ hd_content.ptr_enc = 27
    /\ hd_content.count_enc = 3
    /\ hd_content.table_enc = 59
    /\ hd_given.n = 2
    /\ Len(hd_out) = 6
    /\ hd_out[3] = Field("start", Signed(0 - 2), <<hd_addr - 2>>)
    /\ hd_out[6] = Field("fde", Signed(9), <<hd_addr + 9>>)


----------------------------------------------------------------------------
(***************************************************************************)
(* SpecFn: do_fn, from the look-up of the symbol to the end of             *)
(* disassemble.  It runs the overlay's loop, so it also uses the overlay's *)
(* variables: they are idle until disassemble is entered.                  *)
(***************************************************************************)
SymTypes == {"FUNC", "OBJECT"}

SymValues == {16, 18, 48}

RECURSIVE SumOf(_)
SumOf(lens) == IF lens = <<>> THEN 0 ELSE Head(lens) + SumOf(Tail(lens))

\* st_size: zero, or the bytes of the machine instructions of the function.
SymSizes == {0} \cup { SumOf(lens) : lens \in CodeLens }

\* The symbol found for args.name, if any.
FnSymbols ==
    { <<>> } \cup
    { << [st_type |-> t, st_size |-> n, st_value |-> a] >> :
        t \in SymTypes, n \in SymSizes, a \in SymValues }

\* What symbol_file_offset returns, and the size of the file.
FileOffsets == {<<>>, <<8>>, <<60>>}

FileSizes == {64}

\* The instructions of the FDEs of .eh_frame.
FnStreams ==
    { <<>>,
      << Instr("advance_loc", NoReg, 4), Instr("def_cfa_offset", NoReg, 16),
         Instr("advance_loc", NoReg, 4) >> }

\* The FDEs that may start at an address.
FnFdes(ia) ==
    { [initial_address |-> ia, len |-> len,
       fde |-> OverlayFde(ia, instrs, cie_instrs, 0 - 8)] :
        len \in FdeLens, instrs \in FnStreams,
        cie_instrs \in { p \in CiePrograms : Len(p) <= 2 } }

\* .eh_frame: absent (<<>>), or with at most one FDE at each initial
\* address.
EhFrames ==
    { <<>> } \cup
    { << UNION { pick[ia] : ia \in InitialAddrs } >> :
        pick \in { p \in [InitialAddrs ->
                            { {} } \cup
                            { {f} : f \in UNION { FnFdes(ia) :
                                                    ia \in InitialAddrs } }] :
                    \A ia \in InitialAddrs : p[ia] \subseteq FnFdes(ia) } }

FnInit ==
    /\ RestFnIdle
    /\ OverlayIdle
    /\ fn_pc = "do_fn"
    /\ fn_args \in [cfi : BOOLEAN]
    /\ fn_elf \in [sym : FnSymbols, file_off : FileOffsets,
                   nbytes : FileSizes, eh_frame : EhFrames]
    /\ fn_eh = FALSE
    /\ fn_log = <<>>
    /\ fn_result = Outcome("running", "")

\* EhFnCtx::new, as the Option of the FDE it found: None without an
\* .eh_frame section or when fde_for_address finds no FDE for ip.
EhFnCtx_new(elf, ip) ==
    IF elf.eh_frame = <<>> THEN <<>>
    ELSE LET hits == { f \in elf.eh_frame[1] : contains(f, ip) }
         IN  IF hits = {} THEN <<>> ELSE << CHOOSE f \in hits : TRUE >>

\* do_fn returns, or panics, before disassemble is entered.
FnEnds(how, log) ==
    /\ fn_pc' = "done"
    /\ fn_result' = how
    /\ fn_log' = log
    /\ UNCHANGED <<fn_eh, ov_vars>>

\* do_fn up to its call of disassemble, and disassemble up to its loop.
DoFn ==
    /\ fn_pc = "do_fn"
    /\ IF fn_elf.sym = <<>>
       THEN FnEnds(Outcome("Err", "couldn't find any symbol"), fn_log)
       ELSE
        LET sym == fn_elf.sym[1]
            log == IF sym.st_type # "FUNC"
                   THEN Append(fn_log, "warning: symbol has type")
                   ELSE fn_log
        IN  IF fn_elf.file_off = <<>>
            THEN FnEnds(Outcome("Err", "couldn't find the file offset"), log)
            ELSE IF sym.st_size = 0
            THEN FnEnds(Outcome("panic", "unimplemented: symbol is required"),
                        log)
            ELSE IF fn_elf.file_off[1] + sym.st_size > fn_elf.nbytes
            THEN FnEnds(Outcome("panic", "range end index out of range"), log)
            ELSE
             LET hit == IF fn_args.cfi THEN EhFnCtx_new(fn_elf, sym.st_value)
                                       ELSE <<>>
             IN  /\ \E lens \in CodeLens :
                        /\ SumOf(lens) = sym.st_size
                        /\ code' = Addresses(sym.st_value, lens)
                 /\ fn_eh' = (hit # <<>>)
                 /\ IF hit # <<>>
                    THEN /\ ov_fde' = hit[1].fde
                         /\ ehfn' = EhFnCtx(
                                EhInstrContext(0, 0, hit[1].initial_address,
                                               hit[1].fde.data_align),
                                hit[1].initial_address, FALSE, 0)
                    ELSE UNCHANGED <<ov_fde, ehfn>>
                 /\ UNCHANGED <<ndecoded, out, applied>>
                 /\ fn_log' = log
                 /\ fn_pc' = "disassemble"
                 /\ UNCHANGED fn_result
    /\ UNCHANGED <<fn_args, fn_elf>>
    /\ UNCHANGED rest_fn

\* One iteration of disassemble's loop: with the overlay, or without it.
FnDecode ==
    /\ fn_pc = "disassemble"
    /\ ndecoded < Len(code)
    /\ IF fn_eh
       THEN Disassemble
       ELSE /\ out' = Append(out, InsnItem(code[ndecoded + 1]))
            /\ ndecoded' = ndecoded + 1
            /\ UNCHANGED <<ov_fde, code, ehfn, applied>>
    /\ UNCHANGED <<fn_pc, fn_args, fn_elf, fn_eh, fn_log, fn_result>>
    /\ UNCHANGED rest_fn

\* The decoder has no more bytes: disassemble returns and do_fn with it.
FnReturns ==
    /\ fn_pc = "disassemble"
    /\ ndecoded >= Len(code)
    /\ fn_pc' = "done"
    /\ fn_result' = Outcome("Ok", "")
    /\ UNCHANGED <<fn_args, fn_elf, fn_eh, fn_log, ov_vars>>
    /\ UNCHANGED rest_fn

FnNext == DoFn \/ FnDecode \/ FnReturns

SpecFn == FnInit /\ [][FnNext]_vars


----------------------------------------------------------------------------
(***************************************************************************)
(* Claims about do_fn (SpecFn).                                            *)
(***************************************************************************)
Printed(log) == { log[k] : k \in DOMAIN log }

\* disassemble was entered with the overlay asked for.
OverlayAsked ==
    /\ fn_args.cfi
    /\ fn_pc = "disassemble" \/ (fn_pc = "done" /\ fn_result.kind = "Ok")

\* .eh_frame is there and none of its FDEs has the function's start
\* address in its range.
NoUnwindData ==
    /\ fn_elf.eh_frame # <<>>
    /\ \A f \in fn_elf.eh_frame[1] : ~ contains(f, fn_elf.sym[1].st_value)

\* C17: when the overlay is asked for and no FDE's range contains the
\* function's start address, the overlay fails with a "no unwind data"
\* condition that is reported to the user, and the run is not aborted by
\* it.
C17_NoUnwindDataReported ==
    (OverlayAsked /\ NoUnwindData) =>
        /\ "no unwind data" \in Printed(fn_log)
        /\ fn_result.kind # "panic"

\* C19: disassembling a function symbol whose size is 0 is advisory: a
\* warning is printed and the operation goes on with an empty byte range;
\* the process is not aborted.
C19_ZeroSizeIsAdvisory ==
    (/\ fn_pc \in {"disassemble", "done"}
     /\ fn_elf.sym # <<>>
     /\ fn_elf.file_off # <<>>
     /\ fn_elf.sym[1].st_size = 0) =>
        /\ fn_result.kind \in {"running", "Ok"}
        /\ "warning: symbol has size 0" \in Printed(fn_log)
        /\ code = <<>>
        /\ out = <<>>


----------------------------------------------------------------------------
(***************************************************************************)
(* SpecSection: one_section for a section that was found, from the         *)
(* computation of the byte range to the export or the dump of the bytes.   *)
(* usize is 64 bits wide and scaled as u64 is: its arithmetic is modulo    *)
(* U64, and an addition that overflows panics in a build with overflow     *)
(* checks and wraps in one without.  The section is one that is dumped as  *)
(* a hexdump.                                                              *)
(***************************************************************************)
SectionOffsets == {0, 8}

SectionSizes == {0, 1, 4}

FileBytes == {16}

SkipOpts == { <<>> } \cup { <<k>> : k \in {0, 1, 4, 5, U64 - 1} }

SizeOpts == { <<>> } \cup { <<k>> : k \in {0, 2, 4, 9} }

SectionInit ==
    /\ RestSectionIdle
    /\ se_pc = "range"
    /\ se_sh \in [sh_offset : SectionOffsets, sh_size : SectionSizes,
                  nobits : BOOLEAN]
    /\ se_opts \in [skip : SkipOpts, size : SizeOpts, output : BOOLEAN]
    /\ se_nbytes \in FileBytes
    /\ se_build \in BOOLEAN
    /\ index_range = <<>>
    /\ se_log = <<>>
    /\ se_emitted = <<>>
    /\ se_result = Outcome("running", "")

Range(start, end) == [start |-> start, end |-> end]

\* Range<usize>::len
RangeLen(r) == IF r.start < r.end THEN r.end - r.start ELSE 0

\* SectionHeader::file_range
file_range(sh) ==
    IF sh.nobits THEN <<>>
    ELSE << Range(sh.sh_offset, sh.sh_offset + sh.sh_size) >>

\* Lines 97-100: the range cut to maxlen bytes.
limit(r, maxlen) ==
    IF RangeLen(r) > maxlen
    THEN [r EXCEPT !.end = @ - (RangeLen(r) - maxlen)]
    ELSE r

Warns(cond, text) == IF cond THEN <<text>> ELSE <<>>

\* Lines 87-111: the range of the bytes to export or dump.
ComputeRange ==
    /\ se_pc = "range"
    /\ LET fr == file_range(se_sh)
       IN  IF fr = <<>>
           THEN /\ index_range' = <<>>
                /\ se_log' = se_log
                      \o Warns(se_opts.skip # <<>>, "byte skipping on NOBITS")
                      \o Warns(se_opts.size # <<>>, "number of bytes on NOBITS")
                /\ se_pc' = "emit"
                /\ UNCHANGED se_result
           ELSE
            LET r0 == fr[1]
                skips == se_opts.skip # <<>>
                sum == IF skips THEN r0.start + se_opts.skip[1] ELSE r0.start
                r1 == [r0 EXCEPT !.start = sum % U64]
                r2 == IF se_opts.size # <<>>
                      THEN limit(r1, se_opts.size[1])
                      ELSE r1
                r3 == IF RangeLen(r2) = 0 THEN Range(0, 0) ELSE r2
            IN  /\ se_log' = se_log
                      \o Warns(skips /\ se_opts.skip[1] >= RangeLen(r0),
                               "skipping more bytes than in section")
                /\ IF sum >= U64 /\ se_build
                   THEN /\ se_result' =
                              Outcome("panic", "attempt to add with overflow")
                        /\ se_pc' = "done"
                        /\ UNCHANGED index_range
                   ELSE /\ index_range' = <<r3>>
                        /\ se_pc' = "emit"
                        /\ UNCHANGED se_result
    /\ UNCHANGED <<se_sh, se_opts, se_nbytes, se_build, se_emitted>>
    /\ UNCHANGED rest_se

\* &bytes[index_range]: whether the slicing panics.
SliceFails(r, nbytes) == r.start > r.end \/ r.end > nbytes

SectionEnds(how, emitted) ==
    /\ se_pc' = "done"
    /\ se_result' = how
    /\ se_emitted' = emitted
    /\ UNCHANGED <<se_sh, se_opts, se_nbytes, se_build, index_range, se_log>>

\* Lines 113-128: the bytes are written to the file opts.output names.
Export ==
    /\ se_pc = "emit"
    /\ se_opts.output
    /\ \E io \in {"ok", "create fails", "write fails"} :
          IF index_range = <<>>
          THEN SectionEnds(Outcome("Err", "section is NOBITS"), <<>>)
          ELSE IF io = "create fails"
          THEN SectionEnds(Outcome("Err", "couldn't export content"), <<>>)
          ELSE IF SliceFails(index_range[1], se_nbytes)
          THEN SectionEnds(Outcome("panic", "slice index out of range"), <<>>)
          ELSE IF io = "write fails"
          THEN SectionEnds(Outcome("Err", "couldn't write content"), <<>>)
          ELSE SectionEnds(Outcome("Ok", ""), index_range)
    /\ UNCHANGED rest_se

\* Lines 130-183: the section's fields are printed, then its bytes.
Dump ==
    /\ se_pc = "emit"
    /\ ~ se_opts.output
    /\ IF index_range = <<>>
       THEN SectionEnds(Outcome("Ok", ""), <<>>)
       ELSE IF SliceFails(index_range[1], se_nbytes)
       THEN SectionEnds(Outcome("panic", "slice index out of range"), <<>>)
       ELSE SectionEnds(Outcome("Ok", ""), index_range)
    /\ UNCHANGED rest_se

SectionNext == ComputeRange \/ Export \/ Dump

SpecSection == SectionInit /\ [][SectionNext]_vars


----------------------------------------------------------------------------
(***************************************************************************)
(* Claims about one_section (SpecSection).                                 *)
(***************************************************************************)
\* The skip s and the size limit n asked for, the bytes of the section left
\* after the skip, and the number of them to take.
SkipAsked == IF se_opts.skip = <<>> THEN 0 ELSE se_opts.skip[1]

Available ==
    IF SkipAsked < se_sh.sh_size THEN se_sh.sh_size - SkipAsked ELSE 0

Taken ==
    IF se_opts.size = <<>> \/ se_opts.size[1] > Available
    THEN Available
    ELSE se_opts.size[1]

ExceedsRange ==
    \/ se_opts.skip # <<>> /\ se_opts.skip[1] > se_sh.sh_size
    \/ se_opts.size # <<>> /\ se_opts.size[1] > Available

\* C20: in the single-section view, for every section length len, skip s
\* and size limit n, a skip or size request that exceeds the available
\* range prints a warning and the operation goes on with a clamped range:
\* the bytes dumped or exported are exactly the section's bytes
\* [s, s + min(n, len - s)) when s < len and none when s >= len; the range
\* never extends outside the section's file range and the operation never
\* aborts.
C20_RangeClamped ==
    (se_pc \in {"emit", "done"} /\ ~ se_sh.nobits) =>
        /\ se_result.kind # "panic"
        /\ (se_pc = "done" /\ ExceedsRange) => se_log # <<>>
        /\ \A k \in DOMAIN index_range :
              \/ RangeLen(index_range[k]) = 0
              \/ /\ se_sh.sh_offset <= index_range[k].start
                 /\ index_range[k].end <= se_sh.sh_offset + se_sh.sh_size
        /\ se_result.kind = "Ok" =>
              /\ se_emitted # <<>>
              /\ RangeLen(se_emitted[1]) = Taken
              /\ Taken > 0 =>
                    se_emitted[1].start = se_sh.sh_offset + SkipAsked

----------------------------------------------------------------------------
(***************************************************************************)
(* SpecMain: main and run (main.rs).  The components run calls are taken   *)
(* by the ways they can end: returning (), returning Ok or Err, or         *)
(* panicking.  A panic unwinds through run and main and ends the process   *)
(* with the status of a panic; nothing in the program catches it.          *)
(***************************************************************************)
Commands == {"None", "Summary", "Header", "ProgramHeader", "Sections",
             "Section", "Symbols", "Fn", "Relocations", "Eh"}

\* What Object::parse returns.
ParseResults == {"Err", "Elf", "other object"}

\* How the call of each arm of the match of line 68 can end.  header and
\* program_headers return (); all_sections and all_symbols return () or
\* panic on the unwrap of a name; one_section, do_fn and eh return a Result
\* or panic; the last arm is todo!().
ArmEnds(command) ==
    CASE command \in {"None", "Summary", "Sections"} -> {"returns", "panic"}
      [] command \in {"Header", "ProgramHeader"} -> {"returns"}
      [] command = "Symbols" -> {"returns", "panic"}
      [] command \in {"Section", "Fn", "Eh"} -> {"Ok", "Err", "panic"}
      [] OTHER -> {"todo"}

MainInit ==
    /\ RestMainIdle
    /\ mn_pc = "run"
    /\ mn_env \in [elf : BOOLEAN, env_ELF : BOOLEAN, open : {"Ok", "Err"},
                   mmap : {"Ok", "Err"}, parse : ParseResults,
                   command : Commands]
    /\ mn_ret = Outcome("running", "")
    /\ mn_stderr = <<>>
    /\ mn_exit = <<>>

\* How a process ends: its exit status, and what ended it.
Exit(status, by) == [status |-> status, by |-> by]

\* The status of a process ended by a panic.
PanicExit(what) == Exit(101, what)

\* run returns e to main.
RunReturns(e) ==
    /\ mn_ret' = e
    /\ mn_pc' = "main"
    /\ UNCHANGED <<mn_stderr, mn_exit>>

\* Lines 45-66: the path of the file, the file, its mapping, its parsing.
OpenElf ==
    /\ mn_pc = "run"
    /\ IF ~ mn_env.elf /\ ~ mn_env.env_ELF
       THEN RunReturns(Outcome("Err", "No ELF file provided"))
       ELSE IF mn_env.open = "Err"
       THEN RunReturns(Outcome("Err", "couldn't open ELF"))
       ELSE IF mn_env.mmap = "Err"
       THEN RunReturns(Outcome("Err", "couldn't mmap ELF"))
       ELSE IF mn_env.parse = "Err"
       THEN RunReturns(Outcome("Err", "failed to parse ELF"))
       ELSE IF mn_env.parse # "Elf"
       THEN RunReturns(Outcome("Err", "unsupported ELF format"))
       ELSE /\ mn_pc' = "command"
            /\ UNCHANGED <<mn_ret, mn_stderr, mn_exit>>
    /\ UNCHANGED mn_env
    /\ UNCHANGED rest_mn

\* Lines 68-80: the match on the command.
RunCommand ==
    /\ mn_pc = "command"
    /\ \E end \in ArmEnds(mn_env.command) :
          CASE end = "Err" -> RunReturns(Outcome("Err", mn_env.command))
            [] end \in {"Ok", "returns"} -> RunReturns(Outcome("Ok", ""))
            [] OTHER ->
                /\ mn_exit' = << PanicExit(IF end = "todo"
                                           THEN "todo!() in run"
                                           ELSE "panic in the command") >>
                /\ mn_stderr' = Append(mn_stderr, "thread 'main' panicked")
                /\ mn_pc' = "exited"
                /\ UNCHANGED mn_ret
    /\ UNCHANGED mn_env
    /\ UNCHANGED rest_mn

\* Lines 38-42: main prints the error and exits with 1, or returns.
MainEnds ==
    /\ mn_pc = "main"
    /\ IF mn_ret.kind = "Err"
       THEN /\ mn_stderr' = Append(mn_stderr, "error: " \o mn_ret.what)
            /\ mn_exit' = << Exit(1, "process::exit in main") >>
       ELSE /\ mn_exit' = << Exit(0, "main returns") >>
            /\ UNCHANGED mn_stderr
    /\ mn_pc' = "exited"
    /\ UNCHANGED <<mn_env, mn_ret>>
    /\ UNCHANGED rest_mn

MainNext == OpenElf \/ RunCommand \/ MainEnds

SpecMain == MainInit /\ [][MainNext]_vars

(***************************************************************************)
(* Claims about main and run (SpecMain).                                   *)
(***************************************************************************)

\* C21: every run of every subcommand ends in one of two ways: success
\* with exit status 0, or an error value propagated to main, which prints
\* a diagnostic and exits non-zero; nothing else ends the process.
C21_EndsThroughTheDriver ==
    \A e \in { mn_exit[k] : k \in DOMAIN mn_exit } :
        \/ /\ e.status = 0
           /\ mn_ret.kind = "Ok"
           /\ e.by = "main returns"
        \/ /\ e.status # 0
           /\ mn_ret.kind = "Err"
           /\ e.by = "process::exit in main"
           /\ mn_stderr # <<>>

----------------------------------------------------------------------------
(***************************************************************************)
(* SpecSymbols: all_symbols, one action per iteration of its loop over the *)
(* symbol table.  The iterator is lazy: the symbol it yields is chosen     *)
(* when it is asked.  A name is modelled by its text, the regex of         *)
(* opts.filter by the names it matches, and demangling keeps the name.     *)
(***************************************************************************)
MaxListed == 2   \* symbols the iterator yields

Sym(st_value, st_bind, st_visibility, st_type, name) ==
    [st_value |-> st_value, st_bind |-> st_bind,
     st_visibility |-> st_visibility, st_type |-> st_type, name |-> name]

\* Symbols of a table: imported and local ones, defined and not; name is
\* <<>> when st_name is not an offset of the string table.
ListedSyms ==
    { Sym(0, "GLOBAL", "DEFAULT", "NOTYPE", <<"puts">>),
      Sym(16, "GLOBAL", "DEFAULT", "FUNC", <<"main">>),
      Sym(16, "LOCAL", "DEFAULT", "OBJECT", <<"counter">>),
      Sym(0, "LOCAL", "DEFAULT", "FILE", <<"main.c">>),
      Sym(32, "WEAK", "HIDDEN", "FUNC", <<"core::fmt::write">>),
      Sym(0, "WEAK", "DEFAULT", "FUNC", <<"__gmon_start__">>),
      Sym(16, "GLOBAL", "DEFAULT", "FUNC", <<>>) }

\* is_std_sym
is_std_sym(name) == name \in {"core::fmt::write"}

\* The names the regex of opts.filter matches.
is_match(name) == name \in {"main", "main.c"}

SymbolsInit ==
    /\ RestSymbolsIdle
    /\ sb_pc = "loop"
    /\ sb_opts \in [no_demangle : BOOLEAN, no_rust_std : BOOLEAN,
                    filter : BOOLEAN, local : BOOLEAN, global : BOOLEAN,
                    weak : BOOLEAN, visible : BOOLEAN, defined : BOOLEAN,
                    type : {<<>>, <<"FUNC">>}]
    /\ sb_n = 0
    /\ sb_out = <<>>
    /\ sb_result = "running"

\* Lines 49-58: whether the symbol is skipped for its binding, visibility
\* or type.
SkippedByKind(opts, sym) ==
    IF \/ opts.global /\ sym.st_bind # "GLOBAL"
       \/ opts.local /\ sym.st_bind # "LOCAL"
       \/ opts.weak /\ sym.st_bind # "WEAK"
       \/ opts.visible /\ sym.st_visibility # "DEFAULT"
    THEN TRUE
    ELSE opts.type # <<>> /\ opts.type[1] # sym.st_type

\* Lines 61-76: whether the symbol is skipped for its name.
SkippedByName(opts, name) ==
    \/ ~ opts.no_demangle /\ opts.no_rust_std /\ is_std_sym(name)
    \/ opts.filter /\ ~ is_match(name)

\* Lines 48-122: one iteration of the loop.
ListSymbol ==
    /\ sb_pc = "loop"
    /\ sb_n < MaxListed
    /\ \E sym \in ListedSyms :
          IF SkippedByKind(sb_opts, sym)
          THEN UNCHANGED <<sb_pc, sb_out, sb_result>>
          ELSE IF sym.name = <<>>
          THEN /\ sb_result' = "panic"
               /\ sb_pc' = "done"
               /\ UNCHANGED sb_out
          ELSE IF SkippedByName(sb_opts, sym.name[1])
          THEN UNCHANGED <<sb_pc, sb_out, sb_result>>
          ELSE /\ sb_out' = Append(sb_out, sym)
               /\ UNCHANGED <<sb_pc, sb_result>>
    /\ sb_n' = sb_n + 1
    /\ UNCHANGED sb_opts
    /\ UNCHANGED rest_sb

\* The iterator is exhausted: the legend is printed and all_symbols returns.
SymbolsEnd ==
    /\ sb_pc = "loop"
    /\ sb_pc' = "done"
    /\ sb_result' = "returns"
    /\ UNCHANGED <<sb_opts, sb_n, sb_out>>
    /\ UNCHANGED rest_sb

SymbolsNext == ListSymbol \/ SymbolsEnd

SpecSymbols == SymbolsInit /\ [][SymbolsNext]_vars

(***************************************************************************)
(* Claims about the symbol listing (SpecSymbols).                          *)
(***************************************************************************)

\* C22: with the option defined set, only defined symbols (value > 0) are
\* displayed: no symbol with value 0 is in the output.
C22_DefinedOnly ==
    sb_opts.defined => \A k \in DOMAIN sb_out : sb_out[k].st_value > 0

----------------------------------------------------------------------------
(***************************************************************************)
(* SpecViews: the same .eh_frame section rendered by its two entry points, *)
(* eh (eh.rs, which calls its eh_frame) and one_section (sections.rs,      *)
(* which calls its own eh_frame).  Of an FDE only what places it is kept:  *)
(* the encoding of its initial address, the offset in the section of the   *)
(* field that holds it, the value stored there, and its length.            *)
(***************************************************************************)
SectionAddrs == {64, 4096}

SectionFileOffsets == {64, 96}

PointerEncodings == {"absptr", "pcrel"}

FieldOffsets == {8, 40}

StoredValues == {0 - 32, 512}

EncodedFde(enc, field_off, stored, len) ==
    [enc |-> enc, field_off |-> field_off, stored |-> stored, len |-> len]

\* The FDEs of a section, in the order of their fields.
EncodedFdes ==
    LET one(off) == { EncodedFde(enc, off, v, len) :
                        enc \in PointerEncodings, v \in StoredValues,
                        len \in FdeLens }
    IN  { <<>> } \cup { <<f>> : f \in one(8) }
        \cup { <<f, g>> : f \in one(8), g \in one(40) }

ViewsInit ==
    /\ RestViewsIdle
    /\ vw_sh \in [sh_addr : SectionAddrs, sh_offset : SectionFileOffsets]
    /\ vw_fdes \in EncodedFdes
    /\ vw_base = [eh |-> <<>>, one_section |-> <<>>]
    /\ vw_out = [eh |-> <<>>, one_section |-> <<>>]

\* eh: eh_frame(elf, sh.sh_addr, &bytes[range], &opts)
eh_base(sh) == sh.sh_addr

\* one_section: eh_frame(elf, sh.sh_offset, content)
one_section_base(sh) == sh.sh_offset

\* The initial address of an FDE under BaseAddresses whose eh_frame.section
\* is base: a pc-relative pointer is relative to the address of its field.
initial_address(base, fde) ==
    IF fde.enc = "pcrel" THEN base + fde.field_off + fde.stored
    ELSE fde.stored

\* The PC range printed in the header of an FDE.
PcRange(base, fde) ==
    [start |-> initial_address(base, fde),
     end |-> initial_address(base, fde) + fde.len]

\* A view calls its eh_frame.
Enter(view, base) ==
    /\ vw_base[view] = <<>>
    /\ vw_base' = [vw_base EXCEPT ![view] = <<base>>]
    /\ UNCHANGED <<vw_sh, vw_fdes, vw_out>>
    /\ UNCHANGED rest_vw

EhEnters == Enter("eh", eh_base(vw_sh))

OneSectionEnters == Enter("one_section", one_section_base(vw_sh))

\* One iteration of the loop over the entries of a view, on an FDE.
Render(view) ==
    /\ vw_base[view] # <<>>
    /\ Len(vw_out[view]) < Len(vw_fdes)
    /\ vw_out' = [vw_out EXCEPT ![view] =
                    Append(@, PcRange(vw_base[view][1],
                                      vw_fdes[Len(vw_out[view]) + 1]))]
    /\ UNCHANGED <<vw_sh, vw_fdes, vw_base>>
    /\ UNCHANGED rest_vw

EhRenders == Render("eh")

OneSectionRenders == Render("one_section")

ViewsNext == EhEnters \/ OneSectionEnters \/ EhRenders \/ OneSectionRenders

SpecViews == ViewsInit /\ [][ViewsNext]_vars

(***************************************************************************)
(* Claims about the two views (SpecViews).                                 *)
(***************************************************************************)

\* C25: both entry points hand the frame decoder the section's mapped
\* virtual address as the base for pc-relative encodings, so both render
\* the same FDE initial addresses and PC ranges for the same section.
C25_SameBaseSameRanges ==
    /\ \A view \in DOMAIN vw_base :
          \A k \in DOMAIN vw_base[view] : vw_base[view][k] = vw_sh.sh_addr
    /\ \A k \in DOMAIN vw_out["eh"] \cap DOMAIN vw_out["one_section"] :
          vw_out["eh"][k] = vw_out["one_section"][k]

----------------------------------------------------------------------------
(***************************************************************************)
(* SpecOffset: symbol_file_offset on the symbol found for a name (or none) *)
(* and the program headers of the file.                                    *)
(***************************************************************************)
MaxPhdrs == 2   \* program headers of the file

ProgramHeader(p_vaddr, p_memsz, p_filesz, p_offset) ==
    [p_vaddr |-> p_vaddr, p_memsz |-> p_memsz, p_filesz |-> p_filesz,
     p_offset |-> p_offset]

\* Segments: p_filesz <= p_memsz, the rest of the segment being zero-filled
\* memory that the file does not hold.
ProgramHeaders ==
    { ProgramHeader(va, m, f, off) :
        va \in {0, 16}, m \in {0, 8, 16}, f \in {0, 8}, off \in {0, 64} }

Segments == { ph \in ProgramHeaders : ph.p_filesz <= ph.p_memsz }

RECURSIVE HeaderTables(_)
HeaderTables(n) ==
    IF n = 0 THEN { <<>> }
    ELSE LET shorter == HeaderTables(n - 1)
         IN  shorter \cup { Append(t, ph) : t \in shorter, ph \in Segments }

\* The st_value of the symbol find_symbol yields, if any.
FoundSymbols == { <<>>, <<4>>, <<20>>, <<28>>, <<40>> }

OffsetInit ==
    /\ RestOffsetIdle
    /\ so_pc = "call"
    /\ so_elf \in [sym : FoundSymbols,
                   program_headers : HeaderTables(MaxPhdrs)]
    /\ so_ret = <<>>

\* (ph.p_vaddr..(ph.p_vaddr + ph.p_memsz)).contains(&vaddr)
in_segment(ph, vaddr) ==
    ph.p_vaddr <= vaddr /\ vaddr < ph.p_vaddr + ph.p_memsz

\* ph_by_vaddr: the first program header whose range contains vaddr.
ph_by_vaddr(program_headers, vaddr) ==
    LET hits == { i \in DOMAIN program_headers :
                    in_segment(program_headers[i], vaddr) }
    IN  IF hits = {} THEN <<>>
        ELSE << program_headers[CHOOSE i \in hits :
                                    \A j \in hits : i <= j] >>

symbol_file_offset(elf) ==
    IF elf.sym = <<>> THEN <<>>
    ELSE LET ph == ph_by_vaddr(elf.program_headers, elf.sym[1])
         IN  IF ph = <<>> THEN <<>>
             ELSE << ph[1].p_offset + (elf.sym[1] - ph[1].p_vaddr) >>

SymbolFileOffset ==
    /\ so_pc = "call"
    /\ so_ret' = symbol_file_offset(so_elf)
    /\ so_pc' = "done"
    /\ UNCHANGED so_elf
    /\ UNCHANGED rest_so

OffsetNext == SymbolFileOffset

SpecOffset == OffsetInit /\ [][OffsetNext]_vars

(***************************************************************************)
(* Claims about symbol_file_offset (SpecOffset).                           *)
(***************************************************************************)

\* The places of the program headers whose range of virtual addresses
\* contains the symbol's value.
Containing ==
    { i \in DOMAIN so_elf.program_headers :
        /\ so_elf.program_headers[i].p_vaddr <= so_elf.sym[1]
        /\ so_elf.sym[1] < so_elf.program_headers[i].p_vaddr
                            + so_elf.program_headers[i].p_memsz }

\* C26: symbol_file_offset maps a symbol to p_offset + (st_value - p_vaddr)
\* of the first program header whose range contains st_value, and the
\* offset it returns addresses a byte stored in the file for that segment:
\* p_offset <= offset < p_offset + p_filesz; it returns no offset when no
\* symbol of that name or no containing segment exists.
C26_OffsetInsideTheFileBytes ==
    so_pc = "done" =>
        IF so_elf.sym = <<>> \/ Containing = {}
        THEN so_ret = <<>>
        ELSE LET ph == so_elf.program_headers[
                            CHOOSE i \in Containing :
                                \A j \in Containing : i <= j]
             IN  /\ so_ret = << ph.p_offset + (so_elf.sym[1] - ph.p_vaddr) >>
                 /\ ph.p_offset <= so_ret[1]
                 /\ so_ret[1] < ph.p_offset + ph.p_filesz

=============================================================================
